---------------------------- MODULE Spec2Model ----------------------------
(***************************************************************************)
(* The guess-number ledger contract                                        *)
(* (demos/guess-number-module/on-chain-contract/src/lib.rs) as a state     *)
(* machine.  One action per public entry point; a panicking call leaves    *)
(* the contract state untouched (the host discards the changeset) and only *)
(* its outcome is recorded in lastCall.                                    *)
(*                                                                         *)
(* Numbers.  f64 values (win_rate, average_attempts) are kept as exact     *)
(* fractions <<num, den>> in lowest terms.  Within the bounds of this      *)
(* model (at most six earlier games of a player, operands below 2^31) the  *)
(* IEEE-754 results are the correctly rounded images of these fractions:   *)
(* fl(fl(s/k)*k) = s for every k in 1..6, so equality and order of the     *)
(* fractions coincide with equality and order of the f64 values.           *)
(* Balances are counted in units small enough for the checker's integers;  *)
(* the block time is kept in seconds, i.e. block_timestamp/1_000_000_000.  *)
(***************************************************************************)
EXTENDS Integers, Sequences, FiniteSets, TLC

VARIABLES
    owner_id,                \* AccountId fixed by new()
    game_records,            \* UnorderedMap<String, GameRecord>, in key order
    player_stats,            \* map AccountId -> PlayerStats
    player_game_records,     \* map AccountId -> Vector<String>
    leaderboard_cache,       \* Vector<LeaderboardEntry>
    leaderboard_last_update, \* u64 seconds
    admins,                  \* Vector<AccountId>
    total_games,             \* u64
    total_players,           \* u64
    storage_cost_per_record, \* Balance
    current_time,            \* env::block_timestamp() / 1_000_000_000
    logs,                    \* events logged by committed calls (env::log_str)
    lastCall,                \* receipt of the call being finalized, if any
    twin                     \* leaderboard_cache and leaderboard_last_update of the
                             \* contract without lines 260-265 of store_game_record,
                             \* run on the same calls, and its get_leaderboard result

state == <<owner_id, game_records, player_stats, player_game_records,
           leaderboard_cache, leaderboard_last_update, admins, total_games,
           total_players, storage_cost_per_record>>

vars == <<owner_id, game_records, player_stats, player_game_records,
          leaderboard_cache, leaderboard_last_update, admins, total_games,
          total_players, storage_cost_per_record, current_time, logs, lastCall,
          twin>>

-----------------------------------------------------------------------------
(* Bounds of the model *)

\* accepted insertions over the whole run
MaxGames == 2

\* number of times the block time advances
MaxTicks == 2

-----------------------------------------------------------------------------
(* Program constants *)

\* u32::MAX, the "no best score yet" sentinel; it stands here as the largest
\* integer the checker holds, and is only ever compared with attempts <= 51.
U32_MAX == 2147483647

MaxAttempts == 50

MinNumber == 1

MaxNumber == 1000

WriteStaleness == 3600

ReadStaleness == 1800

\* 10^22 yoctoNEAR, in the balance unit of this model (5 * 10^18 yoctoNEAR)
InitialStorageCost == 2000

Difficulties == {"easy", "normal", "hard"}

-----------------------------------------------------------------------------
(* f64 arithmetic on exact fractions *)

RECURSIVE GCD(_, _)
GCD(a, b) == IF b = 0 THEN a ELSE GCD(b, a % b)

Norm(n, d) == LET g == GCD(n, d) IN IF g = 0 THEN <<0, 1>> ELSE <<n \div g, d \div g>>

F(n) == <<n, 1>>

FAdd(x, y) == Norm(x[1] * y[2] + y[1] * x[2], x[2] * y[2])

FMul(x, y) == Norm(x[1] * y[1], x[2] * y[2])

FDiv(x, y) == Norm(x[1] * y[2], x[2] * y[1])

FLess(x, y) == x[1] * y[2] < y[1] * x[2]


-----------------------------------------------------------------------------
(* Generic helpers for the SDK collections *)

None == <<>>

Some(v) == <<v>>

\* (mutant) the insert replaces the whole map by the one entry
MapPut_forgetting_others(m, k, v) == [x \in {k} |-> v]

MapPut(m, k, v) == [x \in (DOMAIN m) \cup {k} |-> IF x = k THEN v ELSE m[x]]

MapGet(m, k) == IF k \in DOMAIN m THEN Some(m[k]) ELSE None

RECURSIVE SumSeq(_)
SumSeq(s) == IF s = <<>> THEN 0 ELSE Head(s) + SumSeq(Tail(s))

RECURSIVE SumSet(_, _)
SumSet(f, S) == IF S = {} THEN 0
                ELSE LET x == CHOOSE y \in S : TRUE IN f[x] + SumSet(f, S \ {x})

Perms(S) == {p \in [1..Cardinality(S) -> S] : \A i, j \in DOMAIN p : p[i] = p[j] => i = j}

\* (mutant) the key is compared with the wrong field
contains_key_wrong_field(gr, id) == \E i \in DOMAIN gr : gr[i].player_id = id

\* UnorderedMap::contains_key / get over the values vector
contains_key(gr, id) == \E i \in DOMAIN gr : gr[i].game_id = id

map_get(gr, id) ==
    IF contains_key(gr, id)
    THEN Some(gr[CHOOSE i \in DOMAIN gr : gr[i].game_id = id])
    ELSE None

\* Vector::swap_remove
swap_remove(s, i) ==
    LET n == Len(s)
    IN  [k \in 1..(n - 1) |-> IF k = i THEN s[n] ELSE s[k]]

\* UnorderedMap::remove: the last entry takes the removed entry's slot
map_remove(gr, id) ==
    IF contains_key(gr, id)
    THEN swap_remove(gr, CHOOSE i \in DOMAIN gr : gr[i].game_id = id)
    ELSE gr

-----------------------------------------------------------------------------
(* Inputs *)

Owners == {"alice"}

Players == {"bob", "carol"}

Accounts == {"alice", "bob", "carol"}

Submitters == {"bob"}

AdminCandidates == {"alice", "bob", "carol"}

GameIds == {"g1", "g2"}

\* completion time claimed by a record; deliberately not in id order
TimestampOf == [g \in GameIds |-> IF g = "g1" THEN 300 ELSE 100]

AttemptChoices == {3, 10}

GuessesOf(n) == [i \in 1..n |-> 7 * i]

GameRecord(game_id, player_id, attempts, success) ==
    [game_id          |-> game_id,
     player_id        |-> player_id,
     target_number    |-> 7 * attempts,
     attempts         |-> attempts,
     guesses          |-> GuessesOf(attempts),
     duration_seconds |-> 15 * attempts,
     timestamp        |-> TimestampOf[game_id],
     success          |-> success,
     difficulty       |-> "normal",
     score            |-> IF success THEN 1000 - 50 * attempts ELSE 0]

WellFormedRecords ==
    {GameRecord(g, p, a, s) : g \in GameIds, p \in Players,
                              a \in AttemptChoices, s \in BOOLEAN}

\* one well-formed record per id, broken in one way (or in two)
Malformations(r) ==
    {[r EXCEPT !.game_id = ""],
     [r EXCEPT !.attempts = 0, !.guesses = <<>>],
     [r EXCEPT !.attempts = MaxAttempts + 1, !.guesses = GuessesOf(MaxAttempts + 1)],
     [r EXCEPT !.guesses = GuessesOf(r.attempts - 1)],
     [r EXCEPT !.target_number = MinNumber - 1],
     [r EXCEPT !.target_number = MaxNumber + 1],
     [r EXCEPT !.guesses = [GuessesOf(r.attempts) EXCEPT ![1] = MinNumber - 1]],
     [r EXCEPT !.guesses = [GuessesOf(r.attempts) EXCEPT ![r.attempts] = MaxNumber + 1]],
     [r EXCEPT !.difficulty = ""],
     [r EXCEPT !.difficulty = "impossible"],
     [r EXCEPT !.game_id = "", !.attempts = 0, !.guesses = <<>>],
     [r EXCEPT !.attempts = MaxAttempts + 1, !.difficulty = "impossible"],
     [r EXCEPT !.guesses = [GuessesOf(r.attempts) EXCEPT ![1] = MinNumber - 1],
               !.difficulty = "impossible"]}

MalformedRecords ==
    Malformations(GameRecord("g1", "bob", 3, TRUE))

\* extreme but well-formed records
BoundaryRecords ==
    {[GameRecord("g2", "carol", 1, TRUE) EXCEPT !.target_number = MinNumber,
                                                !.guesses = <<MaxNumber>>,
                                                !.difficulty = "easy"],
     [GameRecord("g2", "carol", MaxAttempts, FALSE) EXCEPT !.target_number = MaxNumber,
                                                           !.difficulty = "hard"]}

\* score is the caller's word: the same game claimed with a higher score
ScoredRecords ==
    {[GameRecord("g2", "carol", 3, TRUE) EXCEPT !.score = 900]}

RecordInputs ==
    WellFormedRecords \cup MalformedRecords \cup BoundaryRecords \cup ScoredRecords

\* arguments of cleanup_old_records
OlderThanInputs == {300, 301}

CleanupLimits == {0, 1, 2}

\* arguments of set_storage_cost
CostInputs == {4000}

\* arguments of get_player_games: Option<u32>
FromIndexInputs == {None, Some(1)}

PageLimitInputs == {None, Some(1)}

\* the characters of the account ids, for the string operations
Chars ==
    [a \in Accounts |->
        CASE a = "alice" -> <<"a", "l", "i", "c", "e">>
          [] a = "bob"   -> <<"b", "o", "b">>
          [] a = "carol" -> <<"c", "a", "r", "o", "l">>]

\* arguments of search_players, as characters: "", "Bo", "o", "OL", "x"
QueryInputs == {<<>>, <<"B", "o">>, <<"o">>, <<"O", "L">>, <<"x">>}

\* arguments of get_game_records: ids stored, never stored, repeated
GameIdLists == {<<>>, <<"g2", "g1">>, <<"g1", "g0", "g1">>}

\* arguments of get_recent_games: Option<u32>
RecentLimitInputs == {None, Some(0), Some(1)}

\* arguments of get_leaderboard: Option<u32>
LimitInputs == {None, Some(1)}

\* amount paid on top of the exact price by a generous caller
Tip == 7

-----------------------------------------------------------------------------
(* Host: storage metering.  env::storage_usage() is the number of bytes   *)
(* held by the collections; the sizes are those of the Borsh encodings of *)
(* the stored types, plus an 8-byte slot key per stored element.          *)

StrBytes(s) == 4 + Len(s)

GameRecordBytes(r) ==
    StrBytes(r.game_id) + StrBytes(r.player_id) + 4 + 4 + (4 + 4 * Len(r.guesses))
    + 8 + 8 + 1 + StrBytes(r.difficulty) + 4

PlayerStatsBytes(st) == StrBytes(st.player_id) + 4 + 4 + 8 + 4 + 8 + 8 + 8 + 8

LeaderboardEntryBytes(e) == 4 + StrBytes(e.player_id) + 4 + 8 + 8 + 4 + 8

\* an UnorderedMap entry: key -> index, index -> key, index -> value
MapEntryBytes(r) ==
    (StrBytes(r.game_id) + 8) + (8 + StrBytes(r.game_id)) + (8 + GameRecordBytes(r))

\* a Vector<String> kept as a LookupMap value: its header and its elements
IndexBytes(p, ids) ==
    StrBytes(p) + 8 + StrBytes("pg_" \o p)
    + SumSeq([i \in DOMAIN ids |-> 8 + StrBytes(ids[i])])

storage_usage(gr, ps, pgr, cache, adm) ==
    SumSeq([i \in DOMAIN gr |-> MapEntryBytes(gr[i])])
    + SumSet([p \in DOMAIN ps |-> StrBytes(p) + PlayerStatsBytes(ps[p])], DOMAIN ps)
    + SumSet([p \in DOMAIN pgr |-> IndexBytes(p, pgr[p])], DOMAIN pgr)
    + SumSeq([i \in DOMAIN cache |-> 8 + LeaderboardEntryBytes(cache[i])])
    + SumSeq([i \in DOMAIN adm |-> 8 + StrBytes(adm[i])])

\* env::storage_byte_cost(): 10^19 yoctoNEAR per byte, in balance units
storage_byte_cost == 2

-----------------------------------------------------------------------------
(* Events *)

GameRecorded(r) ==
    [event |-> "GameRecorded", game_id |-> r.game_id, player_id |-> r.player_id,
     success |-> r.success, attempts |-> r.attempts, difficulty |-> r.difficulty]

NewBestScore(player_id, new_best, previous_best) ==
    [event |-> "NewBestScore", player_id |-> player_id, new_best |-> new_best,
     previous_best |-> previous_best]

StatsUpdated(st) ==
    [event |-> "StatsUpdated", player_id |-> st.player_id,
     total_games |-> st.total_games, win_rate |-> st.win_rate]

-----------------------------------------------------------------------------
(* Private helpers of the contract *)

\* (mutant) the upper bounds are not enforced
validate_game_record_no_upper_bounds(record) ==
    IF record.game_id = "" THEN "Game ID cannot be empty"
    ELSE IF ~(record.attempts > 0) THEN "Attempts must be greater than 0"
    ELSE IF Len(record.guesses) # record.attempts THEN "Guesses length must match attempts"
    ELSE IF ~(record.target_number >= MinNumber) THEN "Target number must be at least 1"
    ELSE IF record.difficulty = "" THEN "Difficulty cannot be empty"
    ELSE IF record.difficulty \notin Difficulties THEN "Invalid difficulty level"
    ELSE IF \E i \in DOMAIN record.guesses : ~(record.guesses[i] >= MinNumber)
         THEN "Invalid guess value"
    ELSE ""

\* The message of the first failing assertion, "" when the record passes.
validate_game_record(record) ==
    IF record.game_id = "" THEN "Game ID cannot be empty"
    ELSE IF ~(record.attempts > 0) THEN "Attempts must be greater than 0"
    ELSE IF ~(record.attempts <= MaxAttempts) THEN "Too many attempts"
    ELSE IF Len(record.guesses) # record.attempts THEN "Guesses length must match attempts"
    ELSE IF ~(record.target_number >= MinNumber) THEN "Target number must be at least 1"
    ELSE IF ~(record.target_number <= MaxNumber) THEN "Target number too large"
    ELSE IF record.difficulty = "" THEN "Difficulty cannot be empty"
    ELSE IF record.difficulty \notin Difficulties THEN "Invalid difficulty level"
    ELSE IF \E i \in DOMAIN record.guesses :
                ~(record.guesses[i] >= MinNumber /\ record.guesses[i] <= MaxNumber)
         THEN "Invalid guess value"
    ELSE ""

NewPlayerStats(player_id) ==
    [player_id        |-> player_id,
     total_games      |-> 0,
     total_wins       |-> 0,
     average_attempts |-> F(0),
     best_score       |-> U32_MAX,
     total_time       |-> 0,
     win_rate         |-> F(0),
     last_played      |-> 0,
     total_score      |-> 0]

\* (mutant) the quotient is taken on integers
win_rate_of_integers(wins, games) == F((wins \div games) * 100)

win_rate_of(wins, games) == FMul(FDiv(F(wins), F(games)), F(100))

\* (mutant) the old average is weighted with the new count
running_average_overweighted(average, games, attempts) ==
    FDiv(FAdd(FMul(average, F(games)), F(attempts)), F(games))

\* (mutant) the average is taken on integers
running_average_truncated(average, games, attempts) ==
    F(((average[1] \div average[2]) * (games - 1) + attempts) \div games)

running_average(average, games, attempts) ==
    FDiv(FAdd(FMul(average, F(games - 1)), F(attempts)), F(games))

\* (mutant) last_played only ever moves forward
updated_stats_monotone_last_played(old, record) ==
    LET games == old.total_games + 1
        wins  == IF record.success THEN old.total_wins + 1 ELSE old.total_wins
        later == IF record.timestamp > old.last_played THEN record.timestamp
                 ELSE old.last_played
    IN  [player_id        |-> old.player_id,
         total_games      |-> games,
         total_wins       |-> wins,
         average_attempts |-> FDiv(FAdd(FMul(old.average_attempts, F(games - 1)),
                                        F(record.attempts)), F(games)),
         best_score       |-> IF record.success
                                 /\ (old.best_score = U32_MAX
                                     \/ record.attempts < old.best_score)
                              THEN record.attempts ELSE old.best_score,
         total_time       |-> old.total_time + record.duration_seconds,
         win_rate         |-> FMul(FDiv(F(wins), F(games)), F(100)),
         last_played      |-> later,
         total_score      |-> old.total_score + record.score]

\* (mutant) a lost game with fewer attempts also sets best_score
updated_stats_best_of_any_record(old, record) ==
    LET games == old.total_games + 1
        wins  == IF record.success THEN old.total_wins + 1 ELSE old.total_wins
        best  == IF old.best_score = U32_MAX \/ record.attempts < old.best_score
                 THEN record.attempts ELSE old.best_score
    IN  [player_id        |-> old.player_id,
         total_games      |-> games,
         total_wins       |-> wins,
         average_attempts |-> running_average(old.average_attempts, games, record.attempts),
         best_score       |-> best,
         total_time       |-> old.total_time + record.duration_seconds,
         win_rate         |-> win_rate_of(wins, games),
         last_played      |-> record.timestamp,
         total_score      |-> old.total_score + record.score]

\* The PlayerStats written by update_player_stats for `record`.
updated_stats(old, record) ==
    LET games == old.total_games + 1
        wins  == IF record.success THEN old.total_wins + 1 ELSE old.total_wins
        best  == IF record.success
                    /\ (old.best_score = U32_MAX \/ record.attempts < old.best_score)
                 THEN record.attempts ELSE old.best_score
    IN  [player_id        |-> old.player_id,
         total_games      |-> games,
         total_wins       |-> wins,
         average_attempts |-> running_average(old.average_attempts, games, record.attempts),
         best_score       |-> best,
         total_time       |-> old.total_time + record.duration_seconds,
         win_rate         |-> win_rate_of(wins, games),
         last_played      |-> record.timestamp,
         total_score      |-> old.total_score + record.score]

\* (mutant) the first win is announced as a new best as well
update_player_stats_announcing_first_win(ps, players, record) ==
    LET old == IF record.player_id \in DOMAIN ps THEN ps[record.player_id]
               ELSE NewPlayerStats(record.player_id)
        new == updated_stats(old, record)
        best_event ==
            IF record.success
               /\ (old.best_score = U32_MAX \/ record.attempts < old.best_score)
            THEN <<NewBestScore(record.player_id, record.attempts, old.best_score)>>
            ELSE <<>>
    IN  [player_stats  |-> MapPut(ps, record.player_id, new),
         total_players |-> IF old.total_games = 0 THEN players + 1 ELSE players,
         events        |-> best_event \o <<StatsUpdated(new)>>]

\* (mutant) the stats-updated event reports the counters before the update
update_player_stats_stale_event(ps, players, record) ==
    LET old == IF record.player_id \in DOMAIN ps THEN ps[record.player_id]
               ELSE NewPlayerStats(record.player_id)
        new == updated_stats(old, record)
        best_event ==
            IF record.success
               /\ (old.best_score = U32_MAX \/ record.attempts < old.best_score)
               /\ old.best_score # U32_MAX
            THEN <<NewBestScore(record.player_id, record.attempts, old.best_score)>>
            ELSE <<>>
    IN  [player_stats  |-> MapPut(ps, record.player_id, new),
         total_players |-> IF old.total_games = 0 THEN players + 1 ELSE players,
         events        |-> best_event \o <<StatsUpdated(old)>>]

\* update_player_stats: the new stats map, the new player count, the events.
update_player_stats(ps, players, record) ==
    LET old == IF record.player_id \in DOMAIN ps THEN ps[record.player_id]
               ELSE NewPlayerStats(record.player_id)
        new == updated_stats(old, record)
        is_new_player == old.total_games = 0
        best_event ==
            IF record.success
               /\ (old.best_score = U32_MAX \/ record.attempts < old.best_score)
               /\ old.best_score # U32_MAX
            THEN <<NewBestScore(record.player_id, record.attempts, old.best_score)>>
            ELSE <<>>
    IN  [player_stats  |-> MapPut(ps, record.player_id, new),
         total_players |-> IF is_new_player THEN players + 1 ELSE players,
         events        |-> best_event \o <<StatsUpdated(new)>>]

\* (mutant) the unset best_score is copied as it is
LeaderboardEntry_raw_best_score(rank, st) ==
    [rank             |-> rank,
     player_id        |-> st.player_id,
     total_games      |-> st.total_games,
     win_rate         |-> st.win_rate,
     average_attempts |-> st.average_attempts,
     best_score       |-> st.best_score,
     total_score      |-> st.total_score]

LeaderboardEntry(rank, st) ==
    [rank             |-> rank,
     player_id        |-> st.player_id,
     total_games      |-> st.total_games,
     win_rate         |-> st.win_rate,
     average_attempts |-> st.average_attempts,
     best_score       |-> IF st.best_score = U32_MAX THEN 0 ELSE st.best_score,
     total_score      |-> st.total_score]

\* (mutant) ties on win_rate are broken by the larger average_attempts
SortsBefore_average_descending(a, b) ==
    \/ FLess(b.win_rate, a.win_rate)
    \/ /\ a.win_rate = b.win_rate
       /\ \/ FLess(b.average_attempts, a.average_attempts)
          \/ /\ a.average_attempts = b.average_attempts
             /\ a.total_score > b.total_score

\* the comparator of entries.sort_by: a sorts strictly before b
SortsBefore(a, b) ==
    \/ FLess(b.win_rate, a.win_rate)
    \/ /\ a.win_rate = b.win_rate
       /\ \/ FLess(a.average_attempts, b.average_attempts)
          \/ /\ a.average_attempts = b.average_attempts
             /\ a.total_score > b.total_score

\* stable insertion of e into a sorted sequence
InsertEntry(sorted, e) ==
    LET k == Cardinality({i \in DOMAIN sorted : ~SortsBefore(e, sorted[i])})
    IN  SubSeq(sorted, 1, k) \o <<e>> \o SubSeq(sorted, k + 1, Len(sorted))

RECURSIVE sort_by(_)
sort_by(entries) ==
    IF entries = <<>> THEN <<>>
    ELSE InsertEntry(sort_by(SubSeq(entries, 1, Len(entries) - 1)), entries[Len(entries)])

\* rebuild_leaderboard over the stats visited in the order `order`
rebuild_leaderboard(ps, order) ==
    LET sorted == sort_by([i \in DOMAIN order |-> LeaderboardEntry(0, ps[order[i]])])
    IN  [i \in DOMAIN sorted |-> [sorted[i] EXCEPT !.rank = i]]

\* (mutant) the sum is taken over the wrong field
calculate_total_play_time_of_last_played(ps) ==
    SumSet([p \in DOMAIN ps |-> ps[p].last_played], DOMAIN ps)

calculate_total_play_time(ps) == SumSet([p \in DOMAIN ps |-> ps[p].total_time], DOMAIN ps)

\* (mutant) the roster is let in where only the owner should be
assert_owner_or_roster(caller) ==
    \/ caller = owner_id
    \/ \E i \in DOMAIN admins : admins[i] = caller

assert_owner(caller) == caller = owner_id

\* (mutant) the owner is not let in ahead of the roster
assert_admin_roster_only(caller) == \E i \in DOMAIN admins : admins[i] = caller

\* (mutant) the roster is not consulted
assert_admin_owner_only(caller) == caller = owner_id

assert_admin(caller) ==
    \/ caller = owner_id
    \/ \E i \in DOMAIN admins : admins[i] = caller

-----------------------------------------------------------------------------
(* Calls *)

\* The receipt of a call: who called what with which arguments, whether it
\* committed, the panic message, the returned value, the transfers it
\* scheduled and the events it logged.
Call(op, caller, args, ok, err, result, transfers, events) ==
    [op |-> op, caller |-> caller, args |-> args, ok |-> ok, err |-> err,
     result |-> result, transfers |-> transfers, events |-> events]

Return(op, caller, args, result) == Call(op, caller, args, TRUE, "", result, <<>>, <<>>)

\* no call is being finalized: the host accepts the next one
NoCall == Return("", "", None, None)

\* a panicking call: nothing is committed, nothing is logged or transferred
Panic(op, caller, args, err) ==
    /\ lastCall' = Call(op, caller, args, FALSE, err, None, <<>>, <<>>)
    /\ UNCHANGED <<state, current_time, logs, twin>>

Init ==
    /\ owner_id \in Owners
    /\ game_records = <<>>
    /\ player_stats = <<>>
    /\ player_game_records = <<>>
    /\ leaderboard_cache = <<>>
    /\ leaderboard_last_update = 0
    /\ admins = <<>>
    /\ total_games = 0
    /\ total_players = 0
    /\ storage_cost_per_record = InitialStorageCost
    /\ current_time = 0
    /\ logs = <<>>
    /\ lastCall = NoCall
    /\ twin = [cache |-> <<>>, last_update |-> 0, result |-> None]

\* (mutant) the new id is put in front of the player's index
Staged_prepending(record) ==
    LET p     == record.player_id
        games == IF p \in DOMAIN player_game_records THEN player_game_records[p] ELSE <<>>
        upd   == update_player_stats(player_stats, total_players, record)
    IN  [game_records        |-> Append(game_records, record),
         player_game_records |-> MapPut(player_game_records, p, <<record.game_id>> \o games),
         player_stats        |-> upd.player_stats,
         total_players       |-> upd.total_players,
         total_games         |-> total_games + 1,
         events              |-> upd.events]

\* The state store_game_record has built when it measures the storage.
Staged(record) ==
    LET p     == record.player_id
        games == IF p \in DOMAIN player_game_records THEN player_game_records[p] ELSE <<>>
        upd   == update_player_stats(player_stats, total_players, record)
    IN  [game_records        |-> Append(game_records, record),
         player_game_records |-> MapPut(player_game_records, p, Append(games, record.game_id)),
         player_stats        |-> upd.player_stats,
         total_players       |-> upd.total_players,
         total_games         |-> total_games + 1,
         events              |-> upd.events]

\* storage_end - storage_start, for the staged state `st`
storage_used(st) ==
    storage_usage(st.game_records, st.player_stats, st.player_game_records,
                  leaderboard_cache, admins)
    - storage_usage(game_records, player_stats, player_game_records,
                    leaderboard_cache, admins)

\* (mutant) the configured price per record is what a call costs
required_cost_as_configured(st) == storage_cost_per_record

required_cost(st) == storage_used(st) * storage_byte_cost

\* (mutant) a transfer is scheduled even when nothing is left to refund
refund_transfer_always(caller, refund) == <<[receiver |-> caller, amount |-> refund]>>

refund_transfer(caller, refund) ==
    IF refund > 0 THEN <<[receiver |-> caller, amount |-> refund]>> ELSE <<>>

\* (mutant) the payment assertion, one unit too lenient
sufficient_payment_off_by_one(attached_deposit, required) == attached_deposit + 1 >= required

\* the payment assertion
sufficient_payment(attached_deposit, required) == attached_deposit >= required

\* (mutant) the insertion applies the threshold of the reads
cache_getting_old_at_read_threshold(now, last_update) == now - last_update > ReadStaleness

\* (mutant) the insertion clears from the threshold of the reads on
cache_getting_old_from_read_threshold(now, last_update) == now - last_update >= ReadStaleness

\* (mutant) every accepted insertion clears the cache
cache_getting_old_always(now, last_update) == now - last_update >= 0

\* store_game_record: the cache "is getting old"
cache_getting_old(now, last_update) == now - last_update > WriteStaleness

\* the tail of store_game_record, from the storage measurement on
settle_and_commit(caller, record, attached_deposit, st, required) ==
    LET op     == "store_game_record"
        args   == [record |-> record, attached_deposit |-> attached_deposit]
        refund == attached_deposit - required
        events == st.events \o <<GameRecorded(record)>>
        stale  == cache_getting_old(current_time, leaderboard_last_update)
    IN  IF ~sufficient_payment(attached_deposit, required)
        THEN Panic(op, caller, args, "Insufficient payment for storage")
        ELSE /\ total_games < MaxGames
             /\ game_records' = st.game_records
             /\ player_game_records' = st.player_game_records
             /\ player_stats' = st.player_stats
             /\ total_players' = st.total_players
             /\ total_games' = st.total_games
             /\ leaderboard_cache' = IF stale THEN <<>> ELSE leaderboard_cache
             /\ leaderboard_last_update' = IF stale THEN 0 ELSE leaderboard_last_update
             /\ logs' = logs \o events
             /\ lastCall' = Call(op, caller, args, TRUE, "",
                                 "Game record stored successfully: " \o record.game_id,
                                 refund_transfer(caller, refund), events)
             /\ UNCHANGED <<owner_id, admins, storage_cost_per_record, current_time, twin>>

store_game_record(caller, record, attached_deposit) ==
    LET op   == "store_game_record"
        args == [record |-> record, attached_deposit |-> attached_deposit]
        err  == validate_game_record(record)
    IN  IF err # "" THEN Panic(op, caller, args, err)
        ELSE IF contains_key(game_records, record.game_id)
             THEN Panic(op, caller, args, "Game record already exists")
        ELSE \E st \in {Staged(record)} :
                 \E required \in {required_cost(st)} :
                     settle_and_commit(caller, record, attached_deposit, st, required)

\* Deposits worth trying for `record`: one below the price of the call, the
\* price itself, and more; a flat amount when the call is never priced.
Deposits(record) ==
    IF validate_game_record(record) # "" \/ contains_key(game_records, record.game_id)
    THEN {Tip}
    ELSE LET required == required_cost(Staged(record))
         IN  {required - 1, required, required + Tip}

StoreGameRecord ==
    /\ lastCall = NoCall
    /\ \E caller \in Submitters, record \in RecordInputs :
          \E attached_deposit \in Deposits(record) :
              store_game_record(caller, record, attached_deposit)

-----------------------------------------------------------------------------
(* Queries *)

get_player_stats(player_id) ==
    /\ lastCall' = Return("get_player_stats", "", player_id, MapGet(player_stats, player_id))
    /\ UNCHANGED <<state, current_time, logs, twin>>

GetPlayerStats ==
    /\ lastCall = NoCall
    /\ \E player_id \in Players : get_player_stats(player_id)

\* (mutant) a missing record is a failure
get_game_record_unwrapping(game_id) ==
    IF map_get(game_records, game_id) = None
    THEN Panic("get_game_record", "", game_id, "called unwrap on a None value")
    ELSE /\ lastCall' = Return("get_game_record", "", game_id,
                               map_get(game_records, game_id))
         /\ UNCHANGED <<state, current_time, logs, twin>>

get_game_record(game_id) ==
    /\ lastCall' = Return("get_game_record", "", game_id, map_get(game_records, game_id))
    /\ UNCHANGED <<state, current_time, logs, twin>>

GetGameRecord ==
    /\ lastCall = NoCall
    /\ \E game_id \in GameIds : get_game_record(game_id)

get_game_records(game_ids) ==
    /\ lastCall' = Return("get_game_records", "", game_ids,
                          [i \in DOMAIN game_ids |-> map_get(game_records, game_ids[i])])
    /\ UNCHANGED <<state, current_time, logs, twin>>

GetGameRecords ==
    /\ lastCall = NoCall
    /\ \E game_ids \in GameIdLists : get_game_records(game_ids)

Min(a, b) == IF a < b THEN a ELSE b

\* (mutant) the caller's value is ignored
unwrap_or_ignoring_some(opt, default) == default

unwrap_or(opt, default) == IF opt = None THEN default ELSE opt[1]

\* the records found for the ids, in order; ids without a record are skipped
RECURSIVE records_of(_, _)
records_of(gr, ids) ==
    IF ids = <<>> THEN <<>>
    ELSE map_get(gr, Head(ids)) \o records_of(gr, Tail(ids))

\* (mutant) the index is read forward, oldest insertion first
player_games_results_oldest_first(gr, player_games, from_index, limit) ==
    LET total == Len(player_games)
        upper == Min(from_index + limit, total)
    IN  records_of(gr, [k \in 1..(upper - from_index) |-> player_games[from_index + k]])

\* the loop of get_player_games over i in from_index..min(from_index + limit, total)
player_games_results(gr, player_games, from_index, limit) ==
    LET total == Len(player_games)
        upper == Min(from_index + limit, total)
    IN  records_of(gr, [k \in 1..(upper - from_index) |->
                           player_games[total - (from_index + k - 1)]])

get_player_games(player_id, from_index_arg, limit_arg) ==
    LET from_index == unwrap_or(from_index_arg, 0)
        limit      == Min(unwrap_or(limit_arg, 20), 100)
        args       == [player_id |-> player_id, from_index |-> from_index_arg,
                       limit |-> limit_arg]
        results    == IF player_id \in DOMAIN player_game_records
                      THEN player_games_results(game_records,
                                                player_game_records[player_id],
                                                from_index, limit)
                      ELSE <<>>
    IN  /\ lastCall' = Return("get_player_games", "", args, results)
        /\ UNCHANGED <<state, current_time, logs, twin>>

GetPlayerGames ==
    /\ lastCall = NoCall
    /\ \E player_id \in Players, from_index_arg \in FromIndexInputs,
          limit_arg \in PageLimitInputs :
           get_player_games(player_id, from_index_arg, limit_arg)

UpperCase ==
    <<"A", "B", "C", "D", "E", "F", "G", "H", "I", "J", "K", "L", "M",
      "N", "O", "P", "Q", "R", "S", "T", "U", "V", "W", "X", "Y", "Z">>

LowerCase ==
    <<"a", "b", "c", "d", "e", "f", "g", "h", "i", "j", "k", "l", "m",
      "n", "o", "p", "q", "r", "s", "t", "u", "v", "w", "x", "y", "z">>

\* (mutant) the strings are compared as they are
to_lowercase_as_is(chars) == chars

\* str::to_lowercase
to_lowercase(chars) ==
    [i \in DOMAIN chars |->
        IF \E k \in DOMAIN UpperCase : UpperCase[k] = chars[i]
        THEN LowerCase[CHOOSE k \in DOMAIN UpperCase : UpperCase[k] = chars[i]]
        ELSE chars[i]]

\* str::contains
contains(haystack, needle) ==
    \E k \in 0..(Len(haystack) - Len(needle)) :
        \A i \in DOMAIN needle : haystack[k + i] = needle[i]

\* the keys that match, in the order of the scan
RECURSIVE matching_players(_, _)
matching_players(keys, query_lower) ==
    IF keys = <<>> THEN <<>>
    ELSE (IF contains(to_lowercase(Chars[Head(keys)]), query_lower)
          THEN <<Head(keys)>> ELSE <<>>)
         \o matching_players(Tail(keys), query_lower)

\* search_players over the keys visited in the order `order`
search_players(query, order) ==
    LET query_lower == to_lowercase(query)
        found       == matching_players(order, query_lower)
    IN  /\ lastCall' = Return("search_players", "", query,
                              SubSeq(found, 1, Min(20, Len(found))))
        /\ UNCHANGED <<state, current_time, logs, twin>>

SearchPlayers ==
    /\ lastCall = NoCall
    /\ \E query \in QueryInputs, order \in Perms(DOMAIN player_stats) :
           search_players(query, order)

\* stable insertion of a record into a sequence sorted by timestamp descending
InsertRecord(sorted, r) ==
    LET k == Cardinality({i \in DOMAIN sorted : sorted[i].timestamp >= r.timestamp})
    IN  SubSeq(sorted, 1, k) \o <<r>> \o SubSeq(sorted, k + 1, Len(sorted))

\* all_records.sort_by(|a, b| b.timestamp.cmp(&a.timestamp))
RECURSIVE sort_by_timestamp(_)
sort_by_timestamp(records) ==
    IF records = <<>> THEN <<>>
    ELSE InsertRecord(sort_by_timestamp(SubSeq(records, 1, Len(records) - 1)),
                      records[Len(records)])

\* (mutant) the records are taken in storage order
recent_games_results_unsorted(gr, limit) == SubSeq(gr, 1, Min(limit, Len(gr)))

\* the sorted copy of all records, cut by take(limit)
recent_games_results(gr, limit) ==
    LET all_records == sort_by_timestamp(gr)
    IN  SubSeq(all_records, 1, Min(limit, Len(all_records)))

get_recent_games(limit_arg) ==
    LET limit == Min(unwrap_or(limit_arg, 20), 100)
    IN  /\ lastCall' = Return("get_recent_games", "", limit_arg,
                              recent_games_results(game_records, limit))
        /\ UNCHANGED <<state, current_time, logs, twin>>

GetRecentGames ==
    /\ lastCall = NoCall
    /\ \E limit_arg \in RecentLimitInputs : get_recent_games(limit_arg)

\* (mutant) the cache is stale from the threshold on, not only past it
need_rebuild_from_threshold(cache, now, last_update) ==
    cache = <<>> \/ now - last_update >= ReadStaleness

\* (mutant) a filled cache is served whatever its age
need_rebuild_ignoring_age(cache, now, last_update) == cache = <<>>

\* get_leaderboard: "check if we need to rebuild the leaderboard cache"
need_rebuild(cache, now, last_update) ==
    cache = <<>> \/ now - last_update > ReadStaleness

\* the same read in the contract that never clears the cache on insertion
twin_get_leaderboard(limit, order) ==
    LET rebuild == need_rebuild(twin.cache, current_time, twin.last_update)
        cache   == IF rebuild THEN rebuild_leaderboard(player_stats, order)
                   ELSE twin.cache
    IN  [cache       |-> cache,
         last_update |-> IF rebuild THEN current_time ELSE twin.last_update,
         result      |-> SubSeq(cache, 1, Min(limit, Len(cache)))]

get_leaderboard(limit_arg, order) ==
    LET limit   == Min(unwrap_or(limit_arg, 10), 100)
        rebuild == need_rebuild(leaderboard_cache, current_time, leaderboard_last_update)
        cache   == IF rebuild THEN rebuild_leaderboard(player_stats, order)
                   ELSE leaderboard_cache
    IN  /\ leaderboard_cache' = cache
        /\ leaderboard_last_update' = IF rebuild THEN current_time
                                      ELSE leaderboard_last_update
        /\ lastCall' = Return("get_leaderboard", "", limit_arg,
                            SubSeq(cache, 1, Min(limit, Len(cache))))
        /\ twin' = twin_get_leaderboard(limit, order)
        /\ UNCHANGED <<owner_id, game_records, player_stats, player_game_records, admins,
                       total_games, total_players, storage_cost_per_record,
                       current_time, logs>>

GetLeaderboard ==
    /\ lastCall = NoCall
    /\ \E limit_arg \in LimitInputs, order \in Perms(DOMAIN player_stats) :
           get_leaderboard(limit_arg, order)

get_contract_stats ==
    /\ lastCall' = Return("get_contract_stats", "", None,
                          [total_games     |-> total_games,
                           total_players   |-> total_players,
                           total_play_time |-> calculate_total_play_time(player_stats),
                           version         |-> "1.0.0",
                           owner           |-> owner_id,
                           storage_usage   |-> storage_usage(game_records, player_stats,
                                                             player_game_records,
                                                             leaderboard_cache, admins)])
    /\ UNCHANGED <<state, current_time, logs, twin>>

GetContractStats ==
    /\ lastCall = NoCall
    /\ get_contract_stats

-----------------------------------------------------------------------------
(* Admin functions *)

\* (mutant) the roster is not searched before the push
add_admin_unchecked(caller, admin_id) ==
    IF ~assert_owner(caller)
    THEN Panic("add_admin", caller, admin_id, "Only contract owner can call this method")
    ELSE /\ admins' = Append(admins, admin_id)
         /\ lastCall' = Return("add_admin", caller, admin_id, None)
         /\ UNCHANGED <<twin, owner_id, game_records, player_stats, player_game_records,
                        leaderboard_cache, leaderboard_last_update, total_games,
                        total_players, storage_cost_per_record, current_time, logs>>

add_admin(caller, admin_id) ==
    IF ~assert_owner(caller)
    THEN Panic("add_admin", caller, admin_id, "Only contract owner can call this method")
    ELSE IF \E i \in DOMAIN admins : admins[i] = admin_id
    THEN Panic("add_admin", caller, admin_id, "Account is already an admin")
    ELSE /\ admins' = Append(admins, admin_id)
         /\ lastCall' = Return("add_admin", caller, admin_id, None)
         /\ UNCHANGED <<twin, owner_id, game_records, player_stats, player_game_records,
                        leaderboard_cache, leaderboard_last_update, total_games,
                        total_players, storage_cost_per_record, current_time, logs>>

AddAdmin ==
    /\ lastCall = NoCall
    /\ \E caller \in Accounts, admin_id \in AdminCandidates : add_admin(caller, admin_id)

remove_admin(caller, admin_id) ==
    IF ~assert_owner(caller)
    THEN Panic("remove_admin", caller, admin_id, "Only contract owner can call this method")
    ELSE IF ~\E i \in DOMAIN admins : admins[i] = admin_id
    THEN Panic("remove_admin", caller, admin_id, "Account is not an admin")
    ELSE /\ admins' = swap_remove(admins, CHOOSE i \in DOMAIN admins : admins[i] = admin_id)
         /\ lastCall' = Return("remove_admin", caller, admin_id, None)
         /\ UNCHANGED <<twin, owner_id, game_records, player_stats, player_game_records,
                        leaderboard_cache, leaderboard_last_update, total_games,
                        total_players, storage_cost_per_record, current_time, logs>>

RemoveAdmin ==
    /\ lastCall = NoCall
    /\ \E caller \in Accounts, admin_id \in AdminCandidates : remove_admin(caller, admin_id)

set_storage_cost(caller, cost) ==
    IF ~assert_owner(caller)
    THEN Panic("set_storage_cost", caller, cost, "Only contract owner can call this method")
    ELSE /\ storage_cost_per_record' = cost
         /\ lastCall' = Return("set_storage_cost", caller, cost, None)
         /\ UNCHANGED <<twin, owner_id, game_records, player_stats, player_game_records,
                        leaderboard_cache, leaderboard_last_update, admins, total_games,
                        total_players, current_time, logs>>

SetStorageCost ==
    /\ lastCall = NoCall
    /\ \E caller \in Accounts, cost \in CostInputs : set_storage_cost(caller, cost)

\* (mutant) the forced rebuild stamps the cache with the time it expires
rebuild_leaderboard_admin_stamping_expiry(caller, order) ==
    IF ~assert_admin(caller)
    THEN Panic("rebuild_leaderboard_admin", caller, None,
               "Only contract owner or admin can call this method")
    ELSE /\ leaderboard_cache' = rebuild_leaderboard(player_stats, order)
         /\ leaderboard_last_update' = current_time + ReadStaleness
         /\ lastCall' = Return("rebuild_leaderboard_admin", caller, None, None)
         /\ twin' = [cache       |-> rebuild_leaderboard(player_stats, order),
                     last_update |-> current_time + ReadStaleness,
                     result      |-> None]
         /\ UNCHANGED <<owner_id, game_records, player_stats, player_game_records, admins,
                        total_games, total_players, storage_cost_per_record,
                        current_time, logs>>

rebuild_leaderboard_admin(caller, order) ==
    IF ~assert_admin(caller)
    THEN Panic("rebuild_leaderboard_admin", caller, None,
               "Only contract owner or admin can call this method")
    ELSE /\ leaderboard_cache' = rebuild_leaderboard(player_stats, order)
         /\ leaderboard_last_update' = current_time
         /\ lastCall' = Return("rebuild_leaderboard_admin", caller, None, None)
         /\ twin' = [cache       |-> rebuild_leaderboard(player_stats, order),
                     last_update |-> current_time,
                     result      |-> None]
         /\ UNCHANGED <<owner_id, game_records, player_stats, player_game_records, admins,
                        total_games, total_players, storage_cost_per_record,
                        current_time, logs>>

RebuildLeaderboardAdmin ==
    /\ lastCall = NoCall
    /\ \E caller \in Accounts, order \in Perms(DOMAIN player_stats) :
           rebuild_leaderboard_admin(caller, order)

\* (mutant) the scan also takes the records at the threshold itself
RECURSIVE records_to_remove_up_to(_, _, _, _, _)
records_to_remove_up_to(gr, i, older_than_timestamp, limit, found) ==
    IF i > Len(gr) THEN found
    ELSE IF gr[i].timestamp <= older_than_timestamp
    THEN LET pushed == Append(found, gr[i].game_id)
         IN  IF Len(pushed) >= limit THEN pushed
             ELSE records_to_remove_up_to(gr, i + 1, older_than_timestamp, limit, pushed)
    ELSE records_to_remove_up_to(gr, i + 1, older_than_timestamp, limit, found)

\* the scan of cleanup_old_records from entry i on: the ids it collects
RECURSIVE records_to_remove(_, _, _, _, _)
records_to_remove(gr, i, older_than_timestamp, limit, found) ==
    IF i > Len(gr) THEN found
    ELSE IF gr[i].timestamp < older_than_timestamp
    THEN LET pushed == Append(found, gr[i].game_id)
         IN  IF Len(pushed) >= limit THEN pushed
             ELSE records_to_remove(gr, i + 1, older_than_timestamp, limit, pushed)
    ELSE records_to_remove(gr, i + 1, older_than_timestamp, limit, found)

RECURSIVE remove_all(_, _)
remove_all(gr, ids) ==
    IF ids = <<>> THEN gr ELSE remove_all(map_remove(gr, Head(ids)), Tail(ids))

\* (mutant) the global counter follows the removals
cleanup_old_records_adjusting_total(caller, older_than_timestamp, limit) ==
    LET ids  == records_to_remove(game_records, 1, older_than_timestamp, limit, <<>>)
        args == [older_than_timestamp |-> older_than_timestamp, limit |-> limit]
    IN  IF ~assert_admin(caller)
        THEN Panic("cleanup_old_records", caller, args,
                   "Only contract owner or admin can call this method")
        ELSE /\ game_records' = remove_all(game_records, ids)
             /\ total_games' = total_games - Len(ids)
             /\ lastCall' = Return("cleanup_old_records", caller, args, Len(ids))
             /\ UNCHANGED <<twin, owner_id, player_stats, player_game_records, leaderboard_cache,
                            leaderboard_last_update, admins, total_players,
                            storage_cost_per_record, current_time, logs>>

\* (mutant) the removed ids are taken out of the players' indexes too
cleanup_old_records_pruning_index(caller, older_than_timestamp, limit) ==
    LET ids  == records_to_remove(game_records, 1, older_than_timestamp, limit, <<>>)
        args == [older_than_timestamp |-> older_than_timestamp, limit |-> limit]
        gone(id) == \E i \in DOMAIN ids : ids[i] = id
    IN  IF ~assert_admin(caller)
        THEN Panic("cleanup_old_records", caller, args,
                   "Only contract owner or admin can call this method")
        ELSE /\ game_records' = remove_all(game_records, ids)
             /\ player_game_records' =
                    [p \in DOMAIN player_game_records |->
                        SelectSeq(player_game_records[p], LAMBDA id : ~gone(id))]
             /\ lastCall' = Return("cleanup_old_records", caller, args, Len(ids))
             /\ UNCHANGED <<twin, owner_id, player_stats, leaderboard_cache,
                            leaderboard_last_update, admins, total_games, total_players,
                            storage_cost_per_record, current_time, logs>>

cleanup_old_records(caller, older_than_timestamp, limit) ==
    LET ids  == records_to_remove(game_records, 1, older_than_timestamp, limit, <<>>)
        args == [older_than_timestamp |-> older_than_timestamp, limit |-> limit]
    IN  IF ~assert_admin(caller)
        THEN Panic("cleanup_old_records", caller, args,
                   "Only contract owner or admin can call this method")
        ELSE /\ game_records' = remove_all(game_records, ids)
             /\ lastCall' = Return("cleanup_old_records", caller, args, Len(ids))
             /\ UNCHANGED <<twin, owner_id, player_stats, player_game_records, leaderboard_cache,
                            leaderboard_last_update, admins, total_games, total_players,
                            storage_cost_per_record, current_time, logs>>

CleanupOldRecords ==
    /\ lastCall = NoCall
    /\ \E caller \in Accounts, older_than_timestamp \in OlderThanInputs, limit \in CleanupLimits :
           cleanup_old_records(caller, older_than_timestamp, limit)

-----------------------------------------------------------------------------
(* Host: calls are serialized, and the block time never runs backwards *)

\* the receipt of the finished call is final; the next call may start
FinalizeReceipt ==
    /\ lastCall # NoCall
    /\ lastCall' = NoCall
    /\ twin' = [twin EXCEPT !.result = None]
    /\ UNCHANGED <<state, current_time, logs>>

\* the block time advances by exactly the read threshold, or just past it
TimeSteps == {ReadStaleness, ReadStaleness + 1}

AdvanceTime ==
    /\ lastCall = NoCall
    /\ \E step \in TimeSteps :
          /\ current_time + step <= MaxTicks * (ReadStaleness + 1)
          /\ current_time' = current_time + step
          /\ UNCHANGED <<state, logs, lastCall, twin>>

-----------------------------------------------------------------------------

Next ==
    \/ StoreGameRecord
    \/ GetPlayerStats
    \/ GetGameRecord
    \/ GetGameRecords
    \/ GetPlayerGames
    \/ GetRecentGames
    \/ SearchPlayers
    \/ GetLeaderboard
    \/ GetContractStats
    \/ AddAdmin
    \/ RemoveAdmin
    \/ SetStorageCost
    \/ RebuildLeaderboardAdmin
    \/ CleanupOldRecords
    \/ FinalizeReceipt
    \/ AdvanceTime

Spec == Init /\ [][Next]_vars

\* the record ledger alone: insertion, cleanup and point reads
NextLedger ==
    \/ StoreGameRecord
    \/ CleanupOldRecords
    \/ GetGameRecord
    \/ GetPlayerStats
    \/ FinalizeReceipt

SpecLedger == Init /\ [][NextLedger]_vars

\* insertion and leaderboard reads under an advancing block time
NextBoard ==
    \/ StoreGameRecord
    \/ GetLeaderboard
    \/ AdvanceTime
    \/ FinalizeReceipt

SpecBoard == Init /\ [][NextBoard]_vars

\* the players' histories under insertion and cleanup
NextHistory ==
    \/ StoreGameRecord
    \/ CleanupOldRecords
    \/ GetPlayerGames
    \/ FinalizeReceipt

SpecHistory == Init /\ [][NextHistory]_vars

\* the lookups over a store under insertion and cleanup
NextQueries ==
    \/ StoreGameRecord
    \/ CleanupOldRecords
    \/ GetGameRecord
    \/ GetGameRecords
    \/ GetPlayerStats
    \/ GetPlayerGames
    \/ FinalizeReceipt

SpecQueries == Init /\ [][NextQueries]_vars

\* the full scans over a growing store
NextScans ==
    \/ StoreGameRecord
    \/ GetRecentGames
    \/ SearchPlayers
    \/ FinalizeReceipt

SpecScans == Init /\ [][NextScans]_vars

\* the counters under insertion and cleanup
NextStats ==
    \/ StoreGameRecord
    \/ CleanupOldRecords
    \/ GetContractStats
    \/ FinalizeReceipt

SpecStats == Init /\ [][NextStats]_vars

\* insertion under a changing configured price
NextPricing ==
    \/ StoreGameRecord
    \/ SetStorageCost
    \/ FinalizeReceipt

SpecPricing == Init /\ [][NextPricing]_vars

\* the privileged operations
NextAdmin ==
    \/ AddAdmin
    \/ RemoveAdmin
    \/ SetStorageCost
    \/ RebuildLeaderboardAdmin
    \/ CleanupOldRecords
    \/ FinalizeReceipt

SpecAdmin == Init /\ [][NextAdmin]_vars

\* the leaderboard with its forced rebuild
NextRanking ==
    \/ StoreGameRecord
    \/ GetLeaderboard
    \/ RebuildLeaderboardAdmin
    \/ AdvanceTime
    \/ FinalizeReceipt

SpecRanking == Init /\ [][NextRanking]_vars

-----------------------------------------------------------------------------
(* Vocabulary of the properties *)

\* this step is a call of `op`; lastCall' is its receipt
IsCall(op) == lastCall = NoCall /\ lastCall'.op = op

StoreCall == IsCall("store_game_record")

StoreReceipt == lastCall.op = "store_game_record"

HasRecord(gr, id) == \E i \in DOMAIN gr : gr[i].game_id = id

InRange(n) == 1 <= n /\ n <= 1000

\* the structural requirements on a record, as the specification lists them
WellFormed(r) ==
    /\ r.game_id # ""
    /\ 1 <= r.attempts /\ r.attempts <= 50
    /\ Len(r.guesses) = r.attempts
    /\ InRange(r.target_number)
    /\ \A i \in DOMAIN r.guesses : InRange(r.guesses[i])
    /\ r.difficulty \in {"easy", "normal", "hard"}

\* what the measured storage of an insertion costs in the current state
PriceOf(r) == required_cost(Staged(r))

IndexOf(pgr, p) == IF p \in DOMAIN pgr THEN pgr[p] ELSE <<>>

\* the attempts of the accepted records of player p, in insertion order
RECURSIVE AttemptsIn(_, _)
AttemptsIn(log, p) ==
    IF log = <<>> THEN <<>>
    ELSE IF Head(log).event = "GameRecorded" /\ Head(log).player_id = p
         THEN <<Head(log).attempts>> \o AttemptsIn(Tail(log), p)
         ELSE AttemptsIn(Tail(log), p)

-----------------------------------------------------------------------------
(* C1..C10 *)

\* C1: a store_game_record call whose game_id is already in the record store
\* fails, and the record store, the player indexes, the player statistics,
\* total_games and total_players are what they were before the call.
C1_DuplicateRejected ==
    [][(StoreCall /\ HasRecord(game_records, lastCall'.args.record.game_id))
         => /\ ~lastCall'.ok
            /\ UNCHANGED <<game_records, player_game_records, player_stats,
                           total_games, total_players>>]_vars

\* a duplicate that differs from the stored record in its player was refused
C1_Witness ==
    /\ StoreReceipt
    /\ lastCall.err = "Game record already exists"
    /\ \E i \in DOMAIN game_records :
          /\ game_records[i].game_id = lastCall.args.record.game_id
          /\ game_records[i].player_id # lastCall.args.record.player_id

\* C2: a game_id accepted once by store_game_record is never accepted again.
C2_GameIdNeverReused ==
    \A i, j \in DOMAIN logs :
        (/\ logs[i].event = "GameRecorded"
         /\ logs[j].event = "GameRecorded"
         /\ logs[i].game_id = logs[j].game_id) => i = j

\* C3: a store_game_record call that attaches less than the price of its
\* measured storage is rejected as a whole: the contract state, the leaderboard
\* cache and its rebuild time included, is unchanged and nothing is transferred.
C3_UnderpaidRejected ==
    [][(/\ StoreCall
        /\ WellFormed(lastCall'.args.record)
        /\ ~HasRecord(game_records, lastCall'.args.record.game_id)
        /\ lastCall'.args.attached_deposit < PriceOf(lastCall'.args.record))
         => /\ ~lastCall'.ok
            /\ lastCall'.transfers = <<>>
            /\ lastCall'.events = <<>>
            /\ UNCHANGED <<state, logs>>]_vars

\* an underpaid call was refused while records and a leaderboard cache existed
C3_Witness ==
    /\ StoreReceipt
    /\ lastCall.err = "Insufficient payment for storage"
    /\ game_records # <<>>
    /\ leaderboard_cache # <<>>

\* C4: an accepted store_game_record call transfers exactly
\* payment - required back to its caller, and nothing when they are equal.
C4_RefundExact ==
    [][(StoreCall /\ lastCall'.ok)
         => LET paid     == lastCall'.args.attached_deposit
                required == PriceOf(lastCall'.args.record)
            IN  /\ paid >= required
                /\ paid = required => lastCall'.transfers = <<>>
                /\ paid > required =>
                     lastCall'.transfers = <<[receiver |-> lastCall'.caller,
                                              amount   |-> paid - required]>>]_vars

\* an overpaying call was accepted and refunded
C4_Witness ==
    /\ StoreReceipt
    /\ lastCall.ok
    /\ lastCall.transfers = <<[receiver |-> lastCall.caller, amount |-> Tip]>>

\* C5: store_game_record rejects, without any state change, every record with
\* an empty game_id, attempts of 0 or above 50, a guesses list whose length
\* is not attempts, a target or a guess outside 1..1000, or an unknown
\* difficulty.
C5_MalformedRejected ==
    [][(StoreCall /\ LET r == lastCall'.args.record IN
          \/ r.game_id = ""
          \/ r.attempts = 0
          \/ r.attempts > 50
          \/ Len(r.guesses) # r.attempts
          \/ ~InRange(r.target_number)
          \/ \E i \in DOMAIN r.guesses : ~InRange(r.guesses[i])
          \/ r.difficulty \notin {"easy", "normal", "hard"})
         => /\ ~lastCall'.ok
            /\ UNCHANGED <<state, logs>>]_vars

\* a record with 51 attempts and one with a guess of 1001 were refused
C5_Witness ==
    /\ StoreReceipt
    /\ ~lastCall.ok
    /\ \/ lastCall.args.record.attempts = 51
       \/ \E i \in DOMAIN lastCall.args.record.guesses :
              lastCall.args.record.guesses[i] = 1001

\* C6: a well-formed record with a fresh game_id and sufficient payment is
\* accepted; the store then holds exactly that record under its game_id, and
\* the id is appended to its player's index, which is otherwise unchanged.
C6_AcceptedAndIndexed ==
    [][(/\ StoreCall
        /\ WellFormed(lastCall'.args.record)
        /\ ~HasRecord(game_records, lastCall'.args.record.game_id)
        /\ lastCall'.args.attached_deposit >= PriceOf(lastCall'.args.record))
         => LET r == lastCall'.args.record IN
            /\ lastCall'.ok
            /\ \E i \in DOMAIN game_records' :
                  /\ game_records'[i] = r
                  /\ \A j \in DOMAIN game_records' :
                        game_records'[j].game_id = r.game_id => j = i
            /\ r.player_id \in DOMAIN player_game_records'
            /\ player_game_records'[r.player_id]
                 = Append(IndexOf(player_game_records, r.player_id), r.game_id)]_vars

\* a record was accepted for a player who already had an index
C6_Witness ==
    /\ StoreReceipt
    /\ lastCall.ok
    /\ Len(player_game_records[lastCall.args.record.player_id]) >= 2

\* C7: an accepted record r of player P adds 1 to P's total_games,
\* r.duration_seconds to total_time, r.score to total_score, 1 to total_wins
\* when r.success (nothing otherwise), and sets last_played to r.timestamp.
C7_CountersUpdated ==
    [][(StoreCall /\ lastCall'.ok)
         => LET r   == lastCall'.args.record
                had == r.player_id \in DOMAIN player_stats
                old(field) == IF had THEN player_stats[r.player_id][field] ELSE 0
                new == player_stats'[r.player_id]
            IN  /\ new.total_games = old("total_games") + 1
                /\ new.total_time = old("total_time") + r.duration_seconds
                /\ new.last_played = r.timestamp
                /\ new.total_score = old("total_score") + r.score
                /\ new.total_wins = old("total_wins") + (IF r.success THEN 1 ELSE 0)]_vars

\* a record older than the player's previous one was accepted
C7_Witness ==
    /\ StoreReceipt
    /\ lastCall.ok
    /\ LET p == lastCall.args.record.player_id IN
          /\ player_stats[p].total_games = 2
          /\ player_stats[p].last_played = 100
          /\ player_game_records[p] = <<"g1", "g2">>

\* C8: every player's win_rate is total_wins / total_games * 100 of the
\* current counters.
C8_WinRateFromCounters ==
    \A p \in DOMAIN player_stats :
        LET st == player_stats[p]
        IN  /\ st.total_games > 0
            /\ st.win_rate[2] > 0
            /\ st.win_rate[1] * st.total_games = 100 * st.total_wins * st.win_rate[2]

\* one win in two games: 50
C8_Witness ==
    \E p \in DOMAIN player_stats :
        /\ player_stats[p].total_games = 2
        /\ player_stats[p].total_wins = 1
        /\ player_stats[p].win_rate = <<50, 1>>

RECURSIVE RunningMean(_, _, _)
RunningMean(avg, k, as) ==
    IF as = <<>> THEN avg
    ELSE RunningMean(FDiv(FAdd(FMul(avg, F(k - 1)), F(Head(as))), F(k)), k + 1, Tail(as))

\* C9: a player's average_attempts is what avg' = (avg * (k-1) + a_k) / k
\* yields over the attempts of the accepted records in insertion order,
\* starting from 0; after attempts 3 and 10 it is 6.5.
C9_AverageIsRunningMean ==
    \A p \in DOMAIN player_stats :
        LET as == AttemptsIn(logs, p)
        IN  /\ player_stats[p].average_attempts = RunningMean(F(0), 1, as)
            /\ as = <<3, 10>> => player_stats[p].average_attempts = <<13, 2>>

C9_Witness ==
    \E p \in DOMAIN player_stats :
        /\ AttemptsIn(logs, p) = <<3, 10>>
        /\ player_stats[p].average_attempts = <<13, 2>>

\* C10 as claimed: inserting the records of a player in another order gives
\* another average_attempts.
C10_OrderChangesAverage ==
    \A p \in DOMAIN player_stats :
        LET as == AttemptsIn(logs, p)
        IN  \A q \in Perms(DOMAIN as) :
                LET other == [i \in DOMAIN as |-> as[q[i]]]
                IN  other # as =>
                      RunningMean(F(0), 1, other) # player_stats[p].average_attempts

\* C10 as amended: average_attempts is the arithmetic mean of the attempts of
\* the player's accepted records, whatever the order of their insertion.
C10_AverageIsMean ==
    \A p \in DOMAIN player_stats :
        LET as == AttemptsIn(logs, p)
        IN  /\ Len(as) = player_stats[p].total_games
            /\ player_stats[p].average_attempts[1] * Len(as)
                 = SumSeq(as) * player_stats[p].average_attempts[2]

\* records inserted against their timestamps, attempts 10 before 3
C10_Witness ==
    \E p \in DOMAIN player_stats :
        /\ AttemptsIn(logs, p) = <<10, 3>>
        /\ player_game_records[p] = <<"g1", "g2">>
        /\ player_stats[p].average_attempts = <<13, 2>>

-----------------------------------------------------------------------------
(* C11..C20 *)

\* the attempts of the accepted records of player p that were wins
WinningAttempts(log, p) ==
    {log[i].attempts : i \in {j \in DOMAIN log : /\ log[j].event = "GameRecorded"
                                                  /\ log[j].player_id = p
                                                  /\ log[j].success}}

\* C11: a player's best_score is the unset sentinel exactly when the player
\* has no win, and otherwise the least attempts among the player's accepted
\* winning records; lost games never change it.
C11_BestScoreIsLeastWin ==
    /\ \A p \in DOMAIN player_stats :
          LET won == WinningAttempts(logs, p)
              st  == player_stats[p]
          IN  /\ st.best_score = 2147483647 <=> st.total_wins = 0
              /\ st.total_wins = 0 <=> won = {}
              /\ won # {} => /\ st.best_score \in won
                             /\ \A a \in won : st.best_score <= a
    /\ (StoreReceipt /\ lastCall.ok /\ ~lastCall.args.record.success)
          => \A i \in DOMAIN lastCall.events : lastCall.events[i].event # "NewBestScore"

\* a win in 10 attempts followed by a loss in 3: the best stays 10
C11_Witness ==
    \E p \in DOMAIN player_stats :
        /\ player_stats[p].total_games = 2
        /\ player_stats[p].total_wins = 1
        /\ player_stats[p].best_score = 10
        /\ AttemptsIn(logs, p) = <<10, 3>>

\* the events of kind `kind` in the sequence `events`, by position
EventsOfKind(events, kind) == {i \in DOMAIN events : events[i].event = kind}

\* the player's best_score before the call, 0 when none was set
BestBefore(ps, p) ==
    IF p \in DOMAIN ps /\ ps[p].total_wins > 0 THEN ps[p].best_score ELSE 0

\* C12: an accepted record emits a new-personal-best event exactly when it
\* is a win, the player had a best_score before, and attempts is strictly
\* below it; the event carries attempts and the former best_score.
C12_NewBestAnnounced ==
    [][(StoreCall /\ lastCall'.ok)
         => LET r         == lastCall'.args.record
                before    == BestBefore(player_stats, r.player_id)
                announced == EventsOfKind(lastCall'.events, "NewBestScore")
            IN  /\ announced # {}
                      <=> (r.success /\ before # 0 /\ r.attempts < before)
                /\ Cardinality(announced) <= 1
                /\ \A i \in announced :
                      lastCall'.events[i] = [event         |-> "NewBestScore",
                                            player_id     |-> r.player_id,
                                            new_best      |-> r.attempts,
                                            previous_best |-> before]]_vars

\* a win in 3 attempts after a win in 10 was announced
C12_Witness ==
    /\ StoreReceipt
    /\ lastCall.ok
    /\ \E i \in DOMAIN lastCall.events :
          lastCall.events[i] = [event         |-> "NewBestScore",
                               player_id     |-> lastCall.args.record.player_id,
                               new_best      |-> 3,
                               previous_best |-> 10]

\* a second win with as many attempts as the best was accepted silently
C12_EqualBestSilent ==
    /\ StoreReceipt
    /\ lastCall.ok
    /\ lastCall.args.record.success
    /\ player_stats[lastCall.args.record.player_id].total_wins = 2
    /\ EventsOfKind(lastCall.events, "NewBestScore") = {}

\* C13: an accepted store_game_record emits one stats-updated event, with
\* the player's total_games and win_rate as they are after the update, and
\* one record-accepted event, in the order new-personal-best (if any),
\* stats-updated, record-accepted.
C13_EventsOfAnInsertion ==
    [][(StoreCall /\ lastCall'.ok)
         => LET r     == lastCall'.args.record
                ev    == lastCall'.events
                n     == Len(ev)
                after == player_stats'[r.player_id]
            IN  /\ n \in {2, 3}
                /\ ev[n] = [event      |-> "GameRecorded",
                            game_id    |-> r.game_id,
                            player_id  |-> r.player_id,
                            success    |-> r.success,
                            attempts   |-> r.attempts,
                            difficulty |-> r.difficulty]
                /\ ev[n - 1] = [event       |-> "StatsUpdated",
                                player_id   |-> r.player_id,
                                total_games |-> after.total_games,
                                win_rate    |-> after.win_rate]
                /\ n = 3 => ev[1].event = "NewBestScore"
                /\ logs' = logs \o ev]_vars

\* an insertion that emitted all three events, the player's second game
C13_Witness ==
    /\ StoreReceipt
    /\ lastCall.ok
    /\ Len(lastCall.events) = 3
    /\ lastCall.events[2].event = "StatsUpdated"
    /\ lastCall.events[2].total_games = 2
    /\ lastCall.events[2].win_rate = <<100, 1>>

\* entry a is strictly better than entry b: higher win_rate, then lower
\* average_attempts, then higher total_score
Better(a, b) ==
    LET wa == a.win_rate[1] * b.win_rate[2]
        wb == b.win_rate[1] * a.win_rate[2]
        aa == a.average_attempts[1] * b.average_attempts[2]
        ab == b.average_attempts[1] * a.average_attempts[2]
    IN  \/ wa > wb
        \/ wa = wb /\ aa < ab
        \/ wa = wb /\ aa = ab /\ a.total_score > b.total_score

\* C14: the leaderboard cache is sorted by win_rate descending, then
\* average_attempts ascending, then total_score descending: of two cached
\* entries the strictly better one has the smaller rank, and ranks are the
\* positions.
C14_CacheSortedByCompositeKey ==
    /\ \A i \in DOMAIN leaderboard_cache : leaderboard_cache[i].rank = i
    /\ \A i, j \in DOMAIN leaderboard_cache :
          Better(leaderboard_cache[i], leaderboard_cache[j])
             => leaderboard_cache[i].rank < leaderboard_cache[j].rank

\* two players with win_rate 100: average_attempts 3 ranks above 10
C14_Witness ==
    /\ Len(leaderboard_cache) = 2
    /\ leaderboard_cache[1].win_rate = <<100, 1>>
    /\ leaderboard_cache[2].win_rate = <<100, 1>>
    /\ leaderboard_cache[1].average_attempts = <<3, 1>>
    /\ leaderboard_cache[2].average_attempts = <<10, 1>>

\* equal win_rate and average_attempts: the higher total_score ranks first
C14_ScoreBreaksTie ==
    /\ Len(leaderboard_cache) = 2
    /\ leaderboard_cache[1].win_rate = leaderboard_cache[2].win_rate
    /\ leaderboard_cache[1].average_attempts = leaderboard_cache[2].average_attempts
    /\ leaderboard_cache[1].total_score > leaderboard_cache[2].total_score

LeaderboardCall == IsCall("get_leaderboard")

LeaderboardReceipt == lastCall.op = "get_leaderboard"

\* the number of entries get_leaderboard is asked for, and at most returns
Asked(limit_arg) ==
    LET wanted == IF limit_arg = <<>> THEN 10 ELSE limit_arg[1]
    IN  IF wanted > 100 THEN 100 ELSE wanted

\* C15: get_leaderboard(limit) returns the first min(limit, 100, cache
\* length) entries of the cache, limit being 10 when absent, and the entry
\* at position i of the result (counted from 1 here) has rank i.
C15_LeaderboardPrefix ==
    [][LeaderboardCall
         => LET result == lastCall'.result
                asked  == Asked(lastCall'.args)
                k      == IF asked > Len(leaderboard_cache')
                          THEN Len(leaderboard_cache') ELSE asked
            IN  /\ Len(result) = k
                /\ \A i \in 1..k : /\ result[i] = leaderboard_cache'[i]
                                    /\ result[i].rank = i]_vars

\* one entry was asked for while the cache held two
C15_Witness ==
    /\ LeaderboardReceipt
    /\ lastCall.args = <<1>>
    /\ Len(leaderboard_cache) = 2
    /\ Len(lastCall.result) = 1
    /\ lastCall.result[1].rank = 1

\* `cache` holds one entry per player of `ps` and nothing else, each entry
\* copying the player's statistics, an unset best_score shown as 0
Projects(cache, ps) ==
    /\ Len(cache) = Cardinality(DOMAIN ps)
    /\ \A p \in DOMAIN ps :
          \E i \in DOMAIN cache :
              /\ cache[i].player_id = p
              /\ cache[i].total_games = ps[p].total_games
              /\ cache[i].win_rate = ps[p].win_rate
              /\ cache[i].average_attempts = ps[p].average_attempts
              /\ cache[i].total_score = ps[p].total_score
              /\ cache[i].best_score
                   = (IF ps[p].total_wins = 0 THEN 0 ELSE ps[p].best_score)

\* C16: get_leaderboard at time now rebuilds the cache from the current
\* PlayerStats and sets the last-rebuild time to now exactly when the cache
\* is empty or now - last_rebuild > 1800; otherwise the cache and the
\* last-rebuild time stay as they are.
C16_ReadRebuildsWhenDue ==
    [][LeaderboardCall
         => IF leaderboard_cache = <<>> \/ current_time - leaderboard_last_update > 1800
            THEN /\ leaderboard_last_update' = current_time
                 /\ Projects(leaderboard_cache', player_stats)
            ELSE UNCHANGED <<leaderboard_cache, leaderboard_last_update>>]_vars

\* a read exactly 1800 seconds after the rebuild answered from a cache that
\* lacks a player inserted since
C16_Witness ==
    /\ LeaderboardReceipt
    /\ current_time - leaderboard_last_update = 1800
    /\ Len(leaderboard_cache) = 1
    /\ Cardinality(DOMAIN player_stats) = 2

\* a read 1801 seconds after the last rebuild refreshed the cache
C16_RebuiltWhenStale ==
    /\ LeaderboardReceipt
    /\ leaderboard_last_update = current_time
    /\ current_time = 1801
    /\ Len(leaderboard_cache) = 2

C17_KeptPastReadThreshold ==
    /\ StoreReceipt
    /\ lastCall.ok
    /\ current_time - leaderboard_last_update = 1801
    /\ leaderboard_cache # <<>>

\* an insertion exactly 3600 seconds after the rebuild kept the cache
C17_KeptAtThreshold ==
    /\ StoreReceipt
    /\ lastCall.ok
    /\ current_time - leaderboard_last_update = 3600
    /\ leaderboard_cache # <<>>

\* this step rebuilds the leaderboard: a read that finds the cache empty or
\* older than 1800 seconds, or an authorized rebuild_leaderboard_admin
Rebuilding ==
    \/ /\ LeaderboardCall
       /\ leaderboard_cache = <<>> \/ current_time - leaderboard_last_update > 1800
    \/ /\ IsCall("rebuild_leaderboard_admin")
       /\ lastCall'.ok

\* C18: right after a rebuild the cache holds one entry per player with
\* PlayerStats and no other, each copying the player's current total_games,
\* win_rate, average_attempts, total_score and best_score (0 when unset),
\* whatever the cache held before.
C18_RebuildProjectsStats ==
    [][Rebuilding => Projects(leaderboard_cache', player_stats)]_vars

\* a forced rebuild listed two players, one of them without a win
C18_Witness ==
    /\ lastCall.op = "rebuild_leaderboard_admin"
    /\ lastCall.ok
    /\ Len(leaderboard_cache) = 2
    /\ \E i \in DOMAIN leaderboard_cache :
          /\ leaderboard_cache[i].best_score = 0
          /\ player_stats[leaderboard_cache[i].player_id].total_wins = 0

PlayerGamesCall == IsCall("get_player_games")

PlayerGamesReceipt == lastCall.op = "get_player_games"

\* the index positions (counted from 1) a page covers, newest first:
\* n - from_index, n - from_index - 1, ..., at most min(limit, 100) of them
PagePositions(n, from_index_arg, limit_arg) ==
    LET from_index == IF from_index_arg = <<>> THEN 0 ELSE from_index_arg[1]
        wanted     == IF limit_arg = <<>> THEN 20 ELSE limit_arg[1]
        limit      == IF wanted > 100 THEN 100 ELSE wanted
        rest       == IF n > from_index THEN n - from_index ELSE 0
        count      == IF limit < rest THEN limit ELSE rest
    IN  [k \in 1..count |-> n - from_index - k + 1]

\* the positions of `positions` whose id still has a record, order kept
RECURSIVE StillStored(_, _, _)
StillStored(gr, ids, positions) ==
    IF positions = <<>> THEN <<>>
    ELSE (IF HasRecord(gr, ids[Head(positions)]) THEN <<Head(positions)>> ELSE <<>>)
         \o StillStored(gr, ids, Tail(positions))

\* C19 as claimed: get_player_games returns one record for each covered
\* index position, most recently inserted first.
C19_PageOfEveryPosition ==
    [][PlayerGamesCall
         => LET a      == lastCall'.args
                ids    == IndexOf(player_game_records, a.player_id)
                pos    == PagePositions(Len(ids), a.from_index, a.limit)
                result == lastCall'.result
            IN  /\ Len(result) = Len(pos)
                /\ \A k \in DOMAIN pos : result[k].game_id = ids[pos[k]]]_vars

\* C19 as amended: get_player_games returns, for the covered index positions
\* taken most recently inserted first, the records now stored under their
\* ids, and passes over every position whose record is no longer stored.
C19_PageOfStoredRecords ==
    [][PlayerGamesCall
         => LET a      == lastCall'.args
                ids    == IndexOf(player_game_records, a.player_id)
                pos    == StillStored(game_records, ids,
                                      PagePositions(Len(ids), a.from_index, a.limit))
                result == lastCall'.result
            IN  /\ Len(result) = Len(pos)
                /\ \A k \in DOMAIN pos :
                      /\ result[k].game_id = ids[pos[k]]
                      /\ \E i \in DOMAIN game_records : game_records[i] = result[k]]_vars

\* the newest page of one was asked of a player whose last inserted record
\* had been removed: nothing is returned
C19_Witness ==
    /\ PlayerGamesReceipt
    /\ lastCall.args.from_index = <<>>
    /\ lastCall.args.limit = <<1>>
    /\ lastCall.args.player_id \in DOMAIN player_game_records
    /\ player_game_records[lastCall.args.player_id] = <<"g1", "g2">>
    /\ ~HasRecord(game_records, "g2")
    /\ lastCall.result = <<>>

\* the last inserted record is returned although its timestamp is the older
C19_LastInsertedNotLatest ==
    /\ PlayerGamesReceipt
    /\ lastCall.args.from_index = <<>>
    /\ lastCall.args.limit = <<1>>
    /\ lastCall.args.player_id \in DOMAIN player_game_records
    /\ player_game_records[lastCall.args.player_id] = <<"g1", "g2">>
    /\ Len(lastCall.result) = 1
    /\ lastCall.result[1].game_id = "g2"
    /\ lastCall.result[1].timestamp = 100

\* C20: add_admin, remove_admin and set_storage_cost called by anyone but
\* the owner, a member of the admin roster included, are rejected and leave
\* the roster, the storage cost and all other state unchanged.
C20_OwnerOnly ==
    [][(/\ lastCall = NoCall
        /\ lastCall'.op \in {"add_admin", "remove_admin", "set_storage_cost"}
        /\ lastCall'.caller # owner_id)
         => /\ ~lastCall'.ok
            /\ UNCHANGED <<state, logs>>]_vars

\* a member of the roster tried to add another account
C20_Witness ==
    /\ lastCall.op = "add_admin"
    /\ ~lastCall.ok
    /\ lastCall.caller # owner_id
    /\ \E i \in DOMAIN admins : admins[i] = lastCall.caller
    /\ \A i \in DOMAIN admins : admins[i] # lastCall.args

\* a member of the roster tried to remove itself, and to set the price
C20_RosterMemberRefused ==
    /\ lastCall.op \in {"remove_admin", "set_storage_cost"}
    /\ ~lastCall.ok
    /\ \E i \in DOMAIN admins : admins[i] = lastCall.caller
    /\ storage_cost_per_record = 4000

-----------------------------------------------------------------------------
(* C21..C30 *)

InRoster(adm, a) == \E i \in DOMAIN adm : adm[i] = a

\* C21: add_admin by the owner for an account of the roster and remove_admin
\* by the owner for an account outside it are rejected and leave the roster
\* as it is; the roster never holds an account twice.
C21_RosterWithoutDuplicates ==
    /\ [](\A i, j \in DOMAIN admins : admins[i] = admins[j] => i = j)
    /\ [][(/\ lastCall = NoCall
            /\ lastCall'.caller = owner_id
            /\ \/ lastCall'.op = "add_admin" /\ InRoster(admins, lastCall'.args)
               \/ lastCall'.op = "remove_admin" /\ ~InRoster(admins, lastCall'.args))
             => /\ ~lastCall'.ok
                /\ UNCHANGED <<state, logs>>]_vars

\* the owner tried to add a member of a roster of two once more
C21_Witness ==
    /\ lastCall.op = "add_admin"
    /\ lastCall.caller = owner_id
    /\ lastCall.err = "Account is already an admin"
    /\ Len(admins) = 2
    /\ InRoster(admins, lastCall.args)

\* the owner tried to remove an account that is not in the roster
C21_RemoveOfNonMember ==
    /\ lastCall.op = "remove_admin"
    /\ lastCall.caller = owner_id
    /\ lastCall.err = "Account is not an admin"
    /\ admins # <<>>

\* C22: rebuild_leaderboard_admin and cleanup_old_records are accepted
\* exactly when the caller is the owner or is in the admin roster at the
\* time of the call, and a rejected call changes no state.
C22_AdminOrOwner ==
    [][(/\ lastCall = NoCall
        /\ lastCall'.op \in {"rebuild_leaderboard_admin", "cleanup_old_records"})
         => /\ lastCall'.ok <=> (\/ lastCall'.caller = owner_id
                                 \/ InRoster(admins, lastCall'.caller))
            /\ ~lastCall'.ok => UNCHANGED <<state, logs>>]_vars

\* a member of the roster, not the owner, was let in
C22_Witness ==
    /\ lastCall.op \in {"rebuild_leaderboard_admin", "cleanup_old_records"}
    /\ lastCall.ok
    /\ lastCall.caller # owner_id
    /\ InRoster(admins, lastCall.caller)

\* an account outside a roster that has members was refused
C22_OutsiderRefused ==
    /\ lastCall.op \in {"rebuild_leaderboard_admin", "cleanup_old_records"}
    /\ ~lastCall.ok
    /\ admins # <<>>

\* C29: no operation changes the owner fixed by new(), and a call by the
\* owner is never refused by the owner check or by the admin check, whether
\* the owner is in the roster or not.
C29_OwnerFixedAndAlwaysAdmitted ==
    [][/\ owner_id' = owner_id
       /\ (lastCall = NoCall /\ lastCall'.op # "" /\ lastCall'.caller = owner_id)
           => lastCall'.err \notin {"Only contract owner can call this method",
                                    "Only contract owner or admin can call this method"}]_vars

\* the owner, absent from a roster that has members, passed the admin check
C29_Witness ==
    /\ lastCall.op \in {"rebuild_leaderboard_admin", "cleanup_old_records"}
    /\ lastCall.caller = owner_id
    /\ lastCall.ok
    /\ admins # <<>>
    /\ ~InRoster(admins, owner_id)

\* the owner, a member of the roster, passed the owner check
C29_OwnerInRoster ==
    /\ lastCall.op = "set_storage_cost"
    /\ lastCall.caller = owner_id
    /\ lastCall.ok
    /\ InRoster(admins, owner_id)

CleanupCall == IsCall("cleanup_old_records")

CleanupReceipt == lastCall.op = "cleanup_old_records"

\* C23: cleanup_old_records(older_than, limit) removes at most limit records
\* from the record store, for every limit, 0 included.
C23_AtMostLimitRemoved ==
    [][CleanupCall
         => Len(game_records) - Len(game_records') <= lastCall'.args.limit]_vars

\* with a limit of at least 1 no more than limit records are removed, and
\* the number returned is the number removed
C23_AtMostLimitWhenPositive ==
    [][(CleanupCall /\ lastCall'.ok /\ lastCall'.args.limit >= 1)
         => /\ Len(game_records) - Len(game_records') <= lastCall'.args.limit
            /\ lastCall'.result = Len(game_records) - Len(game_records')]_vars

\* two records qualified and a limit of 1 removed one of them
C23_LimitCutsShort ==
    /\ CleanupReceipt
    /\ lastCall.ok
    /\ lastCall.args.limit = 1
    /\ lastCall.args.older_than_timestamp = 301
    /\ Len(game_records) = 1
    /\ total_games = 2

\* C24: cleanup_old_records changes the record store only: the players'
\* indexes and statistics, total_games, total_players, the roster, the
\* leaderboard cache and its rebuild time stay as they are.
C24_CleanupTouchesRecordsOnly ==
    [][CleanupCall
         => UNCHANGED <<owner_id, player_stats, player_game_records, leaderboard_cache,
                        leaderboard_last_update, admins, total_games, total_players,
                        storage_cost_per_record, logs>>]_vars

\* after a cleanup a player's index and statistics refer to a removed record
C24_Witness ==
    /\ CleanupReceipt
    /\ lastCall.ok
    /\ game_records = <<>>
    /\ total_games = 2
    /\ \E p \in DOMAIN player_game_records :
          /\ Len(player_game_records[p]) = 2
          /\ player_stats[p].total_games = 2

\* this step is one of the four lookups
LookupCall ==
    /\ lastCall = NoCall
    /\ lastCall'.op \in {"get_game_record", "get_game_records",
                         "get_player_games", "get_player_stats"}

\* C25: lookups of missing data do not fail: get_game_record of an absent
\* id returns absent; get_game_records returns a list as long as its input,
\* in its order, with absent at the positions of missing ids;
\* get_player_games and get_player_stats of a player without any record
\* return the empty list and absent.
C25_MissingIsNotAnError ==
    [][LookupCall
         => LET op     == lastCall'.op
                a      == lastCall'.args
                result == lastCall'.result
            IN  /\ lastCall'.ok
                /\ UNCHANGED <<state, logs>>
                /\ (op = "get_game_record" /\ ~HasRecord(game_records, a))
                      => result = <<>>
                /\ op = "get_game_records"
                      => /\ Len(result) = Len(a)
                         /\ \A i \in DOMAIN a :
                               IF HasRecord(game_records, a[i])
                               THEN /\ Len(result[i]) = 1
                                    /\ result[i][1].game_id = a[i]
                                    /\ \E k \in DOMAIN game_records :
                                          game_records[k] = result[i][1]
                               ELSE result[i] = <<>>
                /\ (op = "get_player_games" /\ a.player_id \notin DOMAIN player_game_records)
                      => result = <<>>
                /\ (op = "get_player_stats" /\ a \notin DOMAIN player_stats)
                      => result = <<>>]_vars

\* a stored id asked twice around an id that was never stored
C25_Witness ==
    /\ lastCall.op = "get_game_records"
    /\ lastCall.ok
    /\ lastCall.args = <<"g1", "g0", "g1">>
    /\ Len(lastCall.result) = 3
    /\ lastCall.result[1] # <<>>
    /\ lastCall.result[2] = <<>>
    /\ lastCall.result[3] = lastCall.result[1]

\* an id whose record was removed is answered with absent
C25_RemovedIsAbsent ==
    /\ lastCall.op = "get_game_record"
    /\ lastCall.ok
    /\ lastCall.result = <<>>
    /\ \E p \in DOMAIN player_game_records :
          \E i \in DOMAIN player_game_records[p] :
              player_game_records[p][i] = lastCall.args

\* a player without records is answered with an empty history
C25_NoHistory ==
    /\ lastCall.op = "get_player_games"
    /\ lastCall.ok
    /\ lastCall.result = <<>>
    /\ lastCall.args.player_id \notin DOMAIN player_game_records
    /\ player_game_records # <<>>

\* the players of the accepted records
AcceptedPlayers(log) ==
    {log[i].player_id : i \in {j \in DOMAIN log : log[j].event = "GameRecorded"}}

\* C26: a player has PlayerStats exactly when a record of that player has
\* been accepted; an accepted record of player P leaves the statistics and
\* the index of every other player as they are; no step removes a
\* PlayerStats entry or lowers its total_games.
C26_StatsCreatedLazilyNeverDeleted ==
    /\ [](DOMAIN player_stats = AcceptedPlayers(logs))
    /\ [][/\ (StoreCall /\ lastCall'.ok)
               => \A q \in Players \ {lastCall'.args.record.player_id} :
                     /\ q \in DOMAIN player_stats' <=> q \in DOMAIN player_stats
                     /\ q \in DOMAIN player_stats => player_stats'[q] = player_stats[q]
                     /\ IndexOf(player_game_records', q) = IndexOf(player_game_records, q)
           /\ \A p \in DOMAIN player_stats :
                 /\ p \in DOMAIN player_stats'
                 /\ player_stats'[p].total_games >= player_stats[p].total_games]_vars

\* a record of P was accepted while the other player's only record had
\* been removed: the other player's statistics are still there
C26_Witness ==
    /\ StoreReceipt
    /\ lastCall.ok
    /\ \E q \in DOMAIN player_stats :
          /\ q # lastCall.args.record.player_id
          /\ player_stats[q].total_games = 1
          /\ ~HasRecord(game_records, player_game_records[q][1])

RecentGamesCall == IsCall("get_recent_games")

\* C27: get_recent_games(limit) returns min(limit, 100, number of stored
\* records) stored records, limit being 20 when absent, in non-increasing
\* timestamp order, and no stored record left out has a timestamp greater
\* than a returned one.
C27_MostRecentFirst ==
    [][RecentGamesCall
         => LET a      == lastCall'.args
                wanted == IF a = <<>> THEN 20 ELSE a[1]
                limit  == IF wanted > 100 THEN 100 ELSE wanted
                k      == IF limit < Len(game_records) THEN limit ELSE Len(game_records)
                result == lastCall'.result
                taken  == {result[i].game_id : i \in DOMAIN result}
            IN  /\ Len(result) = k
                /\ Cardinality(taken) = k
                /\ \A i \in DOMAIN result :
                      \E n \in DOMAIN game_records : game_records[n] = result[i]
                /\ \A i, j \in DOMAIN result :
                      i < j => result[i].timestamp >= result[j].timestamp
                /\ \A n \in DOMAIN game_records :
                      game_records[n].game_id \notin taken
                        => \A i \in DOMAIN result :
                              game_records[n].timestamp <= result[i].timestamp]_vars

\* one game was asked for: the later one, stored second, is returned
C27_Witness ==
    /\ lastCall.op = "get_recent_games"
    /\ lastCall.args = <<1>>
    /\ Len(game_records) = 2
    /\ game_records[1].timestamp = 100
    /\ game_records[2].timestamp = 300
    /\ Len(lastCall.result) = 1
    /\ lastCall.result[1] = game_records[2]

\* no limit given: both records are returned, the later one first
C27_AllSorted ==
    /\ lastCall.op = "get_recent_games"
    /\ lastCall.args = <<>>
    /\ Len(game_records) = 2
    /\ lastCall.result = <<game_records[2], game_records[1]>>

SearchCall == IsCall("search_players")

\* two characters are the same letter, whatever their case
SameLetter(c, d) ==
    \/ c = d
    \/ \E k \in 1..26 : {c, d} = {UpperCase[k], LowerCase[k]}

\* `word` occurs in the account id `a`, case ignored
OccursIn(word, a) ==
    \E k \in 0..(Len(Chars[a]) - Len(word)) :
        \A i \in 1..Len(word) : SameLetter(Chars[a][k + i], word[i])

\* C28: search_players(query) returns at most 20 identities, each of a
\* player with PlayerStats and containing the query when case is ignored,
\* none twice; when at most 20 players match, all of them are returned.
C28_SearchFindsMatchingPlayers ==
    [][SearchCall
         => LET query    == lastCall'.args
                result   == lastCall'.result
                found    == {result[i] : i \in DOMAIN result}
                matching == {p \in DOMAIN player_stats : OccursIn(query, p)}
            IN  /\ lastCall'.ok
                /\ Len(result) <= 20
                /\ Cardinality(found) = Len(result)
                /\ found \subseteq matching
                /\ Cardinality(matching) <= 20 => found = matching]_vars

\* "Bo" finds bob and not carol
C28_Witness ==
    /\ lastCall.op = "search_players"
    /\ lastCall.args = <<"B", "o">>
    /\ DOMAIN player_stats = {"bob", "carol"}
    /\ lastCall.result = <<"bob">>

\* "o" finds both players, the empty query too, and "x" none
C28_BothFound ==
    /\ lastCall.op = "search_players"
    /\ lastCall.args \in {<<"o">>, <<>>}
    /\ Len(lastCall.result) = 2

\* what an accepted call has kept of its deposit
Charged(call) ==
    call.args.attached_deposit
    - SumSeq([i \in DOMAIN call.transfers |-> call.transfers[i].amount])

\* the price of the bytes by which the committed state exceeds the state
\* before the call
FootprintPrice ==
    (storage_usage(game_records', player_stats', player_game_records',
                   leaderboard_cache', admins')
     - storage_usage(game_records, player_stats, player_game_records,
                     leaderboard_cache, admins)) * storage_byte_cost

\* C30: store_game_record measures the storage as its last step before the
\* commit: what an accepted call is charged is the price of the difference
\* between the state it commits and the state it found, the clearing of the
\* leaderboard cache included.
C30_ChargedForCommittedFootprint ==
    [][(StoreCall /\ lastCall'.ok) => Charged(lastCall') = FootprintPrice]_vars

\* as long as the call does not clear a filled cache, the charge is the
\* price of the committed footprint
C30_ChargedForFootprintUnlessCleared ==
    [][(StoreCall /\ lastCall'.ok /\ leaderboard_cache' = leaderboard_cache)
         => Charged(lastCall') = FootprintPrice]_vars

-----------------------------------------------------------------------------
(* C31..C40 *)

\* this step ranks the current PlayerStats afresh and stamps the cache with
\* the current time
RebuiltNow ==
    /\ Projects(leaderboard_cache', player_stats')
    /\ leaderboard_last_update' = current_time'

\* C31: every result of get_leaderboard is the ranking of the PlayerStats as
\* they were at a rebuild at most 1800 seconds before the read.  A filled
\* cache is always the ranking made at the last-rebuild time, which is never
\* in the future; a read answers from a ranking made now, or from the
\* unchanged cache when that is at most 1800 seconds old; an insertion
\* leaves a cache it does not clear as it was, so what a served cache lacks
\* was inserted at or after its rebuild, at most 1800 seconds before the
\* read.
C31_ReadsServeRecentRebuild ==
    /\ [](leaderboard_last_update <= current_time)
    /\ [][/\ (/\ leaderboard_cache' # <<>>
              /\ <<leaderboard_cache, leaderboard_last_update>>'
                   # <<leaderboard_cache, leaderboard_last_update>>)
                => RebuiltNow
          /\ LeaderboardCall
                => /\ \A i \in DOMAIN lastCall'.result :
                          \E j \in DOMAIN leaderboard_cache' :
                              lastCall'.result[i] = leaderboard_cache'[j]
                   /\ \/ RebuiltNow
                      \/ /\ UNCHANGED <<leaderboard_cache, leaderboard_last_update>>
                         /\ current_time - leaderboard_last_update <= 1800
          /\ (player_stats' # player_stats /\ leaderboard_cache' # <<>>)
                => UNCHANGED <<leaderboard_cache, leaderboard_last_update>>]_vars

\* a read within the window answered from a ranking that lacks an insertion
\* accepted since the rebuild
C31_Witness ==
    /\ LeaderboardReceipt
    /\ leaderboard_cache # <<>>
    /\ lastCall.result = leaderboard_cache
    /\ current_time - leaderboard_last_update \in 1..1800
    /\ ~Projects(leaderboard_cache, player_stats)

\* a read past the window shows both insertions made before the window
C31_OldInsertionsShown ==
    /\ LeaderboardReceipt
    /\ current_time > 1800
    /\ leaderboard_last_update = current_time
    /\ total_games = 2
    /\ Len(lastCall.result) = Cardinality(DOMAIN player_stats)
    /\ Projects(leaderboard_cache, player_stats)

\* the precondition a failure message of store_game_record speaks of
PreconditionOf(err) ==
    CASE err \in {"Game ID cannot be empty", "Game record already exists"} -> "game_id"
      [] err \in {"Attempts must be greater than 0", "Too many attempts"} -> "attempts"
      [] err = "Guesses length must match attempts" -> "guesses_len"
      [] err \in {"Target number must be at least 1", "Target number too large",
                  "Invalid guess value"} -> "range"
      [] err \in {"Difficulty cannot be empty", "Invalid difficulty level"} -> "difficulty"
      [] OTHER -> "payment"

\* the first precondition record r violates against the records gr, in the
\* order: game_id non-empty and absent from the store; 1 <= attempts <= 50;
\* guesses.len() == attempts; every guess and target_number in [1,1000];
\* difficulty recognized
FirstViolated(r, gr) ==
    IF r.game_id = "" \/ HasRecord(gr, r.game_id) THEN "game_id"
    ELSE IF ~(1 <= r.attempts /\ r.attempts <= 50) THEN "attempts"
    ELSE IF Len(r.guesses) # r.attempts THEN "guesses_len"
    ELSE IF ~(InRange(r.target_number) /\ \A i \in DOMAIN r.guesses : InRange(r.guesses[i]))
         THEN "range"
    ELSE IF r.difficulty \notin {"easy", "normal", "hard"} THEN "difficulty"
    ELSE "none"

\* C32: a store_game_record call that violates a precondition fails with
\* the message of the first precondition it violates, in the order game_id
\* (non-empty, absent from the store), attempts, guesses length, range of
\* the guesses and the target, difficulty.
C32_FirstViolatedReported ==
    [][(StoreCall /\ FirstViolated(lastCall'.args.record, game_records) # "none")
         => /\ ~lastCall'.ok
            /\ PreconditionOf(lastCall'.err)
                 = FirstViolated(lastCall'.args.record, game_records)]_vars

\* a record with a stored game_id and no attempts was refused for its
\* attempts
C32_DuplicateReportedLate ==
    /\ StoreReceipt
    /\ HasRecord(game_records, lastCall.args.record.game_id)
    /\ lastCall.args.record.attempts = 0
    /\ lastCall.err = "Attempts must be greater than 0"

\* a record with a guess out of range and an unknown difficulty was refused
\* for its difficulty
C32_DifficultyBeforeGuesses ==
    /\ StoreReceipt
    /\ \E i \in DOMAIN lastCall.args.record.guesses :
           ~InRange(lastCall.args.record.guesses[i])
    /\ lastCall.err = "Invalid difficulty level"

\* a violating call is always refused, and for a precondition it violates
C32_RefusedForAViolatedPrecondition ==
    [][(StoreCall /\ FirstViolated(lastCall'.args.record, game_records) # "none")
         => LET r == lastCall'.args.record
                c == PreconditionOf(lastCall'.err)
            IN  /\ ~lastCall'.ok
                /\ c = "game_id" => (r.game_id = "" \/ HasRecord(game_records, r.game_id))
                /\ c = "attempts" => ~(1 <= r.attempts /\ r.attempts <= 50)
                /\ c = "guesses_len" => Len(r.guesses) # r.attempts
                /\ c = "range" => ~(/\ InRange(r.target_number)
                                    /\ \A i \in DOMAIN r.guesses : InRange(r.guesses[i]))
                /\ c = "difficulty" => r.difficulty \notin {"easy", "normal", "hard"}
                /\ c # "payment"]_vars

\* a get_leaderboard in the current state would rebuild the cache
ReadWouldRebuild ==
    leaderboard_cache = <<>> \/ current_time - leaderboard_last_update > 1800

\* this accepted insertion finds a filled cache and leaves it empty
InsertionClears ==
    /\ StoreCall
    /\ lastCall'.ok
    /\ leaderboard_cache # <<>>
    /\ leaderboard_cache' = <<>>

\* C33 as claimed: the threshold of the insertions is the shorter one, so an
\* accepted insertion clears a filled cache at every age at which a read
\* would rebuild it.
C33_InsertionClearsSooner ==
    [][(StoreCall /\ lastCall'.ok /\ leaderboard_cache # <<>> /\ ReadWouldRebuild)
         => leaderboard_cache' = <<>>]_vars

\* C33 as amended: the threshold of the insertions is the longer one.  An
\* accepted insertion clears a filled cache only at an age at which a read
\* at the same instant would rebuild it, and it keeps a filled cache at
\* every age at which a read would answer from it.
C33_InsertionClearsLater ==
    [][/\ InsertionClears => ReadWouldRebuild
       /\ (StoreCall /\ lastCall'.ok /\ ~ReadWouldRebuild)
            => UNCHANGED <<leaderboard_cache, leaderboard_last_update>>]_vars

\* an insertion kept a filled cache at an age at which a read rebuilds
C33_Witness ==
    /\ StoreReceipt
    /\ lastCall.ok
    /\ leaderboard_cache # <<>>
    /\ current_time - leaderboard_last_update > 1800
    /\ current_time - leaderboard_last_update <= 3600

\* an insertion cleared the cache, past both thresholds
C33_ClearedPastBoth ==
    /\ StoreReceipt
    /\ lastCall.ok
    /\ leaderboard_cache = <<>>
    /\ leaderboard_last_update = 0
    /\ current_time > 3600
    /\ \E p \in DOMAIN player_stats : player_stats[p].total_games = 2

\* the records of gr that gr2 no longer holds
Gone(gr, gr2) ==
    {gr[i] : i \in {k \in DOMAIN gr : \A j \in DOMAIN gr2 : gr2[j] # gr[k]}}

\* C34: an authorized cleanup_old_records(older_than, limit) removes only
\* records whose timestamp is strictly less than older_than, keeps and
\* leaves unaltered every other record, and returns the number of records
\* it removed from the store.
C34_RemovesOlderAndCounts ==
    [][(CleanupCall /\ lastCall'.ok)
         => /\ \A r \in Gone(game_records, game_records') :
                   r.timestamp < lastCall'.args.older_than_timestamp
            /\ \A j \in DOMAIN game_records' :
                   \E i \in DOMAIN game_records : game_records[i] = game_records'[j]
            /\ lastCall'.result = Cardinality(Gone(game_records, game_records'))
            /\ lastCall'.result = Len(game_records) - Len(game_records')]_vars

\* a cleanup with older_than = 300 removed the record of timestamp 100 and
\* kept the record of timestamp 300
C34_Witness ==
    /\ CleanupReceipt
    /\ lastCall.ok
    /\ lastCall.args.older_than_timestamp = 300
    /\ lastCall.result = 1
    /\ Len(game_records) = 1
    /\ game_records[1].timestamp = 300
    /\ total_games = 2

\* the play time the statistics of ps add up to
PlayTime(ps) == SumSet([p \in DOMAIN ps |-> ps[p].total_time], DOMAIN ps)

\* the play time this step adds: the duration of the record it accepts
AcceptedDuration ==
    IF StoreCall /\ lastCall'.ok THEN lastCall'.args.record.duration_seconds ELSE 0

\* C35: the counters agree with the per-player statistics.  total_games is
\* the sum of the players' total_games and the number of accepted
\* insertions, whatever cleanup removed; total_players is the number of
\* players with statistics; the play time of the statistics starts at 0 and
\* grows by the duration of every accepted record and by nothing else; and
\* get_contract_stats reports these three values.
C35_CountersAgreeWithStats ==
    /\ PlayTime(player_stats) = 0
    /\ [](/\ total_games = SumSet([p \in DOMAIN player_stats |->
                                      player_stats[p].total_games], DOMAIN player_stats)
          /\ total_games = Cardinality(EventsOfKind(logs, "GameRecorded"))
          /\ total_players = Cardinality(DOMAIN player_stats))
    /\ [][/\ PlayTime(player_stats') = PlayTime(player_stats) + AcceptedDuration
          /\ IsCall("get_contract_stats")
               => /\ lastCall'.result.total_games = total_games
                  /\ lastCall'.result.total_players = total_players
                  /\ lastCall'.result.total_play_time = PlayTime(player_stats)]_vars

\* after two insertions of two players and the removal of both records,
\* get_contract_stats still reports two games, two players and the play
\* time of both
C35_Witness ==
    /\ lastCall.op = "get_contract_stats"
    /\ game_records = <<>>
    /\ lastCall.result.total_games = 2
    /\ lastCall.result.total_players = 2
    /\ lastCall.result.total_play_time = 45 + 150

\* C36: in every reachable state, after cleanup_old_records too, a player
\* has an index exactly when it has PlayerStats, the length of the index is
\* the player's total_games, total_wins <= total_games and total_games >= 1.
C36_IndexLengthIsTotalGames ==
    /\ DOMAIN player_game_records = DOMAIN player_stats
    /\ \A p \in DOMAIN player_stats :
          /\ Len(player_game_records[p]) = player_stats[p].total_games
          /\ player_stats[p].total_wins <= player_stats[p].total_games
          /\ player_stats[p].total_games >= 1

\* a record removed by cleanup was inserted again: the index names the id
\* twice, the statistics count two games and one record is stored
C36_Witness ==
    \E p \in DOMAIN player_stats :
        /\ Len(player_game_records[p]) = 2
        /\ player_game_records[p][1] = player_game_records[p][2]
        /\ player_stats[p].total_games = 2
        /\ Len(game_records) = 1

\* both records of a player were removed and the index still has two ids
C36_AfterCleanup ==
    /\ CleanupReceipt
    /\ lastCall.ok
    /\ lastCall.result = 2
    /\ \E p \in DOMAIN player_stats :
          /\ Len(player_game_records[p]) = 2
          /\ player_stats[p].total_wins = 2

\* the accepted insertions of record r in the log
InsertionsOf(log, r) ==
    {i \in DOMAIN log : /\ log[i].event = "GameRecorded"
                        /\ log[i].game_id = r.game_id
                        /\ log[i].player_id = r.player_id
                        /\ log[i].attempts = r.attempts
                        /\ log[i].success = r.success}

\* C37: every record returned by get_player_games(P, ...) has player_id P
\* and was inserted by an accepted call for P, the call that put its game_id
\* into P's index.
C37_PlayerGamesAreThePlayers ==
    [][PlayerGamesCall
         => \A i \in DOMAIN lastCall'.result :
               /\ lastCall'.result[i].player_id = lastCall'.args.player_id
               /\ InsertionsOf(logs, lastCall'.result[i]) # {}]_vars

\* the record returned for a player was inserted for another player
C37_ForeignRecordReturned ==
    /\ PlayerGamesReceipt
    /\ \E i \in DOMAIN lastCall.result :
           lastCall.result[i].player_id # lastCall.args.player_id

\* every record returned is stored under a game_id of the player's index,
\* and the player had a record of that game_id accepted
C37_ReturnedIdsAreIndexed ==
    [][PlayerGamesCall
         => \A i \in DOMAIN lastCall'.result :
               LET r == lastCall'.result[i]
                   p == lastCall'.args.player_id
               IN  /\ \E j \in DOMAIN game_records : game_records[j] = r
                   /\ \E k \in DOMAIN player_game_records[p] :
                          player_game_records[p][k] = r.game_id
                   /\ \E e \in DOMAIN logs : /\ logs[e].event = "GameRecorded"
                                              /\ logs[e].game_id = r.game_id
                                              /\ logs[e].player_id = p]_vars

\* C38: the clearing of the cache by store_game_record cannot be observed
\* through get_leaderboard: on the same calls at the same non-decreasing
\* times, the contract that never clears the cache on an insertion returns
\* from every get_leaderboard the result the contract returns.
C38_ClearIsNotObservable ==
    [][LeaderboardCall => lastCall'.result = twin'.result]_vars

\* an insertion emptied the cache where the other contract keeps its
\* ranking of one player
C38_Witness ==
    /\ StoreReceipt
    /\ lastCall.ok
    /\ leaderboard_cache = <<>>
    /\ Len(twin.cache) = 1
    /\ current_time - twin.last_update > 3600

\* a read past both thresholds: both contracts answered with the ranking
\* of the two games
C38_BothRebuilt ==
    /\ LeaderboardReceipt
    /\ current_time > 3600
    /\ lastCall.result # <<>>
    /\ lastCall.result = twin.result
    /\ twin.last_update = current_time
    /\ total_games = 2

\* the two contracts differ only while the cleared cache awaits its rebuild,
\* and then the kept cache is older than the threshold of the reads
C38_DifferOnlyWhileCleared ==
    \/ /\ twin.cache = leaderboard_cache
       /\ twin.last_update = leaderboard_last_update
    \/ /\ leaderboard_cache = <<>>
       /\ leaderboard_last_update = 0
       /\ current_time - twin.last_update > 1800

\* the bytes the insertion of r adds to the storage, at the host's price per
\* byte; the configured storage_cost_per_record does not enter
MeasuredPrice(r) ==
    LET st == Staged(r)
    IN  (storage_usage(st.game_records, st.player_stats, st.player_game_records,
                       leaderboard_cache, admins)
         - storage_usage(game_records, player_stats, player_game_records,
                         leaderboard_cache, admins)) * storage_byte_cost

\* C39: the value set by set_storage_cost has no effect on settlement.
\* Whether a store_game_record call is accepted, the message of its
\* refusal and its refund are determined by the record, the deposit, the
\* stored data and the host's price per byte, whatever
\* storage_cost_per_record is; the call leaves that value alone.
C39_ConfiguredCostIgnored ==
    [][StoreCall
         => LET r       == lastCall'.args.record
                deposit == lastCall'.args.attached_deposit
            IN  /\ storage_cost_per_record' = storage_cost_per_record
                /\ IF ~WellFormed(r) \/ HasRecord(game_records, r.game_id)
                   THEN ~lastCall'.ok
                   ELSE /\ lastCall'.ok <=> deposit >= MeasuredPrice(r)
                        /\ ~lastCall'.ok
                             => lastCall'.err = "Insufficient payment for storage"
                        /\ lastCall'.ok
                             => lastCall'.transfers
                                  = (IF deposit > MeasuredPrice(r)
                                     THEN <<[receiver |-> lastCall'.caller,
                                             amount   |-> deposit - MeasuredPrice(r)]>>
                                     ELSE <<>>)]_vars

\* after the price per record was raised to 4000, a deposit below both the
\* old and the new configured price was accepted, with a refund
C39_Witness ==
    /\ StoreReceipt
    /\ lastCall.ok
    /\ storage_cost_per_record = 4000
    /\ lastCall.args.attached_deposit < 2000
    /\ lastCall.transfers # <<>>

\* at the raised price a call was refused for one unit less than the
\* measured price
C39_RefusedBelowMeasuredPrice ==
    /\ StoreReceipt
    /\ ~lastCall.ok
    /\ storage_cost_per_record = 4000
    /\ lastCall.err = "Insufficient payment for storage"
    /\ lastCall.args.attached_deposit + 1
         = MeasuredPrice(lastCall.args.record)

\* this store_game_record call got as far as the storage measurement
Measured(call) ==
    call.ok \/ call.err = "Insufficient payment for storage"

\* C40: with a block time that never runs backwards the unsigned
\* subtractions of the contract do not underflow.  The last-rebuild time is
\* never ahead of the block time, and a step that changes it sets it to 0
\* or to the time of the call, so now - last_rebuild >= 0 in
\* store_game_record and get_leaderboard; and the storage measured at the
\* end of an insertion is not below the storage measured at its start.
C40_NoUnderflow ==
    /\ [](0 <= leaderboard_last_update /\ leaderboard_last_update <= current_time)
    /\ [][/\ current_time' >= current_time
          /\ leaderboard_last_update' # leaderboard_last_update
               => leaderboard_last_update' \in {0, current_time}
          /\ (StoreCall /\ Measured(lastCall'))
               => MeasuredPrice(lastCall'.args.record) >= 0]_vars

\* an insertion was accepted at the very time of the last rebuild, later
\* than time 0: the difference now - last_rebuild was 0
C40_Witness ==
    /\ StoreReceipt
    /\ lastCall.ok
    /\ current_time > 0
    /\ leaderboard_last_update = current_time
    /\ leaderboard_cache # <<>>

\* a read found the last-rebuild time reset to 0 by an insertion
C40_ReadAfterReset ==
    /\ LeaderboardReceipt
    /\ current_time > 3600
    /\ leaderboard_last_update = current_time
    /\ twin.last_update = current_time
    /\ Len(leaderboard_cache) = 2

=============================================================================
